---- MODULE Spec2Model ----
(***************************************************************************)
(* Verification model of miniauthor's Dropbox synchronisation core:        *)
(*   - src/src/lib/merge.ts           line diff and three-way text merge   *)
(*   - src/unnamed/part_005           blocks <-> markdown conversion       *)
(*   - src/unnamed/part_016           useDropboxSync (the orchestrator)    *)
(*                                                                         *)
(* A JavaScript string is modelled as the non-empty sequence of its lines  *)
(* (the pieces between "\n"); a line is a sequence of one-character        *)
(* strings.  The empty string is the one-line text whose line is empty.    *)
(* Two strings are equal exactly when their models are equal.              *)
(***************************************************************************)
EXTENDS Integers, Sequences, FiniteSets, TLC

VARIABLES
    \* ---- inputs and outputs of threeWayMergeText (merge.ts) ----
    baseText, localText, remoteText, mergeResult, remergeResult, mergePc,
    \* ---- the world around the hook: network, time, Dropbox ----
    clock, remoteDocs,
    \* ---- IndexedDB ----
    storedDocs, storedToken,
    \* ---- state and refs of useDropboxSync (part_016:359-376) ----
    activeFileId, blocks, baseMarkdown, remoteRev, lastSyncedAt, documentCache,
    dropboxToken, syncNotice, isSyncing, isPulling, conflict,
    \* ---- armed autosave timer and the asynchronous calls in flight ----
    autosavePending, syncCalls, resolveCall, selectCall, pullCall,
    \* ---- history: what the last syncWithDropbox call came to; edits, calls and
    \* ---- uploads of other devices so far ----
    lastReturn, editCount, callCount, remoteWriteCount,
    \* ---- connectivity (App.tsx:177) and the refreshCatalog effect ----
    navigatorOnLine, effectDeps, catalogRefreshing, onlineToggles,
    \* ---- the conflict modal: the two texts, the choices, the composed text ----
    conflictRemote, conflictLocal, hunkChoices, resolvedMarkdown,
    \* ---- arguments and result of mergeFileCatalogs (part_016:180-214) ----
    localFiles, remoteFiles, mergedFiles, catalogPc,
    \* ---- a call of ensureValidDropboxToken (main.tsx:201-212) ----
    dateNow, tokenArg, tokenPayload, tokenResult, tokenRequests, tokenPc,
    \* ---- the OAuth callback (main.tsx:171-199, part_016:1357-1372) ----
    locationCode, locationState, sessionState, sessionVerifier, exchangeRequests,
    exchangePayload, oauthToken, hookToken, authNotice, authPc,
    \* ---- the workspace: file catalog, active file, the Dropbox index and the
    \* ---- catalog refresh, delete and select calls in flight (part_016:400-920) ----
    filesRef, activeFileIdRef, storedWorkspace, workspaceDocs, remoteCatalogFile,
    refreshCall, deleteCall, selectTargets, workspaceNow, workspaceOps

mergeVars == <<baseText, localText, remoteText, mergeResult, remergeResult, mergePc>>

syncVars ==
    <<clock, remoteDocs, storedDocs, storedToken, activeFileId,
      blocks, baseMarkdown, remoteRev, lastSyncedAt, documentCache, dropboxToken, syncNotice,
      isSyncing, isPulling, conflict, autosavePending, syncCalls, resolveCall, selectCall,
      pullCall, lastReturn, editCount, callCount, remoteWriteCount>>

onlineVars == <<navigatorOnLine, effectDeps, catalogRefreshing, onlineToggles>>

hunkVars == <<conflictRemote, conflictLocal, hunkChoices, resolvedMarkdown>>

\* The variables of the specifications of single functions.
catalogVars == <<localFiles, remoteFiles, mergedFiles, catalogPc>>

tokenVars == <<dateNow, tokenArg, tokenPayload, tokenResult, tokenRequests, tokenPc>>

authVars ==
    <<locationCode, locationState, sessionState, sessionVerifier, exchangeRequests,
      exchangePayload, oauthToken, hookToken, authNotice, authPc>>

workspaceVars ==
    <<filesRef, activeFileIdRef, storedWorkspace, workspaceDocs, remoteCatalogFile,
      refreshCall, deleteCall, selectTargets, workspaceNow, workspaceOps>>

pureVars == <<mergeVars, hunkVars, catalogVars, tokenVars, authVars, workspaceVars>>

\* What the steps of the orchestrator leave alone.
otherVars == <<pureVars, onlineVars>>

\* What the steps of the merge specification leave alone.
exceptMergeVars == <<syncVars, onlineVars, hunkVars, catalogVars, tokenVars, authVars, workspaceVars>>

\* What the steps of the modal's specification leave alone.
exceptHunkVars == <<syncVars, onlineVars, mergeVars, catalogVars, tokenVars, authVars, workspaceVars>>

\* What the steps of the catalog specification leave alone.
exceptCatalogVars == <<syncVars, onlineVars, mergeVars, hunkVars, tokenVars, authVars, workspaceVars>>

\* What the steps of the token specification leave alone.
exceptTokenVars == <<syncVars, onlineVars, mergeVars, hunkVars, catalogVars, authVars, workspaceVars>>

\* What the steps of the OAuth specification leave alone.
exceptAuthVars == <<syncVars, onlineVars, mergeVars, hunkVars, catalogVars, tokenVars, workspaceVars>>

exceptWorkspaceVars ==
    <<syncVars, onlineVars, mergeVars, hunkVars, catalogVars, tokenVars, authVars>>

vars ==
    <<mergeVars, syncVars, onlineVars, hunkVars, catalogVars, tokenVars, authVars,
      workspaceVars>>

(***************************************************************************)
(* Strings                                                                 *)
(***************************************************************************)
EmptyText == << <<>> >>

\* The characters String.prototype.trim / trimEnd remove (the ones the model uses).
IsWhitespace(c) == c \in {" ", "\r", "\t"}

IsBlankLine(line) == \A i \in 1..Len(line) : IsWhitespace(line[i])

RECURSIVE TrimEndLine(_)
TrimEndLine(line) ==
    IF line = <<>> THEN <<>>
    ELSE IF IsWhitespace(line[Len(line)]) THEN TrimEndLine(SubSeq(line, 1, Len(line) - 1))
    ELSE line

RECURSIVE TrimStartLine(_)
TrimStartLine(line) ==
    IF line = <<>> THEN <<>>
    ELSE IF IsWhitespace(line[1]) THEN TrimStartLine(Tail(line))
    ELSE line

\* text.trimEnd(): "\n" is whitespace too, so blank trailing lines go with
\* their newline, then the last remaining line loses its trailing blanks.
RECURSIVE TrimEnd(_)
TrimEnd(text) ==
    LET n == Len(text) IN
    IF IsBlankLine(text[n])
    THEN IF n = 1 THEN EmptyText ELSE TrimEnd(SubSeq(text, 1, n - 1))
    ELSE [text EXCEPT ![n] = TrimEndLine(text[n])]

RECURSIVE TrimStart(_)
TrimStart(text) ==
    IF IsBlankLine(text[1])
    THEN IF Len(text) = 1 THEN EmptyText ELSE TrimStart(Tail(text))
    ELSE [text EXCEPT ![1] = TrimStartLine(text[1])]

Trim(text) == TrimStart(TrimEnd(text))

\* text.replace(/\r\n/g, "\n"): a "\r" right before a newline is dropped.
NormalizeNewlines(text) ==
    [i \in 1..Len(text) |->
        IF i < Len(text) /\ text[i] # <<>> /\ text[i][Len(text[i])] = "\r"
        THEN SubSeq(text[i], 1, Len(text[i]) - 1)
        ELSE text[i]]

(***************************************************************************)
(* merge.ts                                                                *)
(***************************************************************************)
splitLines(text) ==
    IF text = EmptyText THEN <<>> ELSE NormalizeNewlines(text)

joinLines_keepTrailing(lines) ==
    IF lines = <<>> THEN EmptyText ELSE lines

joinLines(lines) ==
    TrimEnd(IF lines = <<>> THEN EmptyText ELSE lines)

\* lcs[i][j] of diffTokens: the LCS length of the first i source and j target lines.
RECURSIVE lcs(_, _, _, _)
lcs(source, target, i, j) ==
    IF i = 0 \/ j = 0 THEN 0
    ELSE IF source[i] = target[j] THEN lcs(source, target, i - 1, j - 1) + 1
    ELSE LET up == lcs(source, target, i - 1, j)
             left == lcs(source, target, i, j - 1)
         IN IF up >= left THEN up ELSE left

Op(type, item) == [type |-> type, items |-> <<item>>]

\* The backtracking loop of diffTokens from (i, j), already reversed: the op
\* pushed first (at (rows, cols)) comes last.
RECURSIVE backtrack(_, _, _, _)
backtrack(source, target, i, j) ==
    IF i = 0 /\ j = 0 THEN <<>>
    ELSE IF i > 0 /\ j > 0 /\ source[i] = target[j]
         THEN Append(backtrack(source, target, i - 1, j - 1), Op("equal", source[i]))
    ELSE IF j > 0 /\ (i = 0 \/ lcs(source, target, i, j - 1) >= lcs(source, target, i - 1, j))
         THEN Append(backtrack(source, target, i, j - 1), Op("insert", target[j]))
    ELSE Append(backtrack(source, target, i - 1, j), Op("delete", source[i]))

RECURSIVE compact_keepsFirst(_, _)
compact_keepsFirst(ops, compacted) ==
    IF ops = <<>> THEN compacted
    ELSE LET op == Head(ops)
             n == Len(compacted)
         IN IF n > 0 /\ compacted[n].type = op.type
            THEN compact_keepsFirst(Tail(ops), compacted)
            ELSE compact_keepsFirst(Tail(ops), Append(compacted, op))

RECURSIVE compact(_, _)
compact(ops, compacted) ==
    IF ops = <<>> THEN compacted
    ELSE LET op == Head(ops)
             n == Len(compacted)
         IN IF n > 0 /\ compacted[n].type = op.type
            THEN compact(Tail(ops),
                         [compacted EXCEPT ![n].items = compacted[n].items \o op.items])
            ELSE compact(Tail(ops), Append(compacted, op))

diffTokens(source, target) ==
    compact(backtrack(source, target, Len(source), Len(target)), <<>>)

Change(start, end, insert) == [start |-> start, end |-> end, insert |-> insert]

RECURSIVE changesFrom(_, _, _)
changesFrom(ops, index, sourceCursor) ==
    IF index > Len(ops) THEN <<>>
    ELSE LET op == ops[index] IN
         IF op.type = "equal"
         THEN changesFrom(ops, index + 1, sourceCursor + Len(op.items))
         ELSE IF op.type = "insert"
         THEN <<Change(sourceCursor, sourceCursor, op.items)>>
              \o changesFrom(ops, index + 1, sourceCursor)
         ELSE IF index + 1 <= Len(ops) /\ ops[index + 1].type = "insert"
         THEN <<Change(sourceCursor, sourceCursor + Len(op.items), ops[index + 1].items)>>
              \o changesFrom(ops, index + 2, sourceCursor + Len(op.items))
         ELSE <<Change(sourceCursor, sourceCursor + Len(op.items), <<>>)>>
              \o changesFrom(ops, index + 1, sourceCursor + Len(op.items))

changesFromDiff(ops) == changesFrom(ops, 1, 0)

overlaps_touching(a, b) == a.start <= b.end /\ b.start <= a.end

overlaps_contained(a, b) == a.start <= b.start /\ b.end <= a.end

overlaps(a, b) == a.start < b.end /\ b.start < a.end

insertsInsideChangedRange(insertChange, editChange) ==
    IF insertChange.start # insertChange.end THEN FALSE
    ELSE IF editChange.start = editChange.end THEN FALSE
    ELSE insertChange.start > editChange.start /\ insertChange.start < editChange.end

equivalent_position(a, b) == a.start = b.start /\ a.end = b.end

equivalent(a, b) == a.start = b.start /\ a.end = b.end /\ a.insert = b.insert

\* base.slice(from, to) with 0-based, end-exclusive indices.
Slice(seq, from, to) == SubSeq(seq, from + 1, to)

\* appendChange returns the new cursor and pushes onto output; here the pushed lines.
appendChange(base, cursor, change) == Slice(base, cursor, change.start) \o change.insert

Clean(merged) == [status |-> "clean", merged |-> merged, reason |-> "none"]

Conflict(merged, reason) == [status |-> "conflict", merged |-> merged, reason |-> reason]

\* The while loop of threeWayMergeText (merge.ts:208-277) and what follows it.
RECURSIVE mergeWalk(_, _, _, _, _, _, _, _)
mergeWalk(base, localTxt, localChanges, remoteChanges, localIndex, remoteIndex, cursor, merged) ==
    LET hasLocal == localIndex <= Len(localChanges)
        hasRemote == remoteIndex <= Len(remoteChanges)
    IN
    IF ~hasLocal /\ ~hasRemote
    THEN Clean(joinLines(merged \o Slice(base, cursor, Len(base))))
    ELSE
    IF ~hasRemote \/ (hasLocal /\ localChanges[localIndex].start < remoteChanges[remoteIndex].start)
    THEN LET localChange == localChanges[localIndex] IN
         IF hasRemote
            /\ (\/ overlaps(localChange, remoteChanges[remoteIndex])
                \/ insertsInsideChangedRange(localChange, remoteChanges[remoteIndex])
                \/ insertsInsideChangedRange(remoteChanges[remoteIndex], localChange))
         THEN Conflict(localTxt, "Overlapping edits detected.")
         ELSE mergeWalk(base, localTxt, localChanges, remoteChanges,
                        localIndex + 1, remoteIndex, localChange.end,
                        merged \o appendChange(base, cursor, localChange))
    ELSE
    IF ~hasLocal \/ remoteChanges[remoteIndex].start < localChanges[localIndex].start
    THEN LET remoteChange == remoteChanges[remoteIndex] IN
         IF hasLocal
            /\ (\/ overlaps(remoteChange, localChanges[localIndex])
                \/ insertsInsideChangedRange(remoteChange, localChanges[localIndex])
                \/ insertsInsideChangedRange(localChanges[localIndex], remoteChange))
         THEN Conflict(localTxt, "Overlapping edits detected.")
         ELSE mergeWalk(base, localTxt, localChanges, remoteChanges,
                        localIndex, remoteIndex + 1, remoteChange.end,
                        merged \o appendChange(base, cursor, remoteChange))
    ELSE
    LET localChange == localChanges[localIndex]
        remoteChange == remoteChanges[remoteIndex]
    IN
    IF equivalent(localChange, remoteChange)
    THEN mergeWalk(base, localTxt, localChanges, remoteChanges,
                   localIndex + 1, remoteIndex + 1, localChange.end,
                   merged \o appendChange(base, cursor, localChange))
    ELSE
    IF /\ localChange.start = localChange.end
       /\ remoteChange.start = remoteChange.end
       /\ localChange.start = remoteChange.start
    THEN mergeWalk(base, localTxt, localChanges, remoteChanges,
                   localIndex + 1, remoteIndex + 1, localChange.end,
                   merged \o Slice(base, cursor, localChange.start)
                          \o localChange.insert \o remoteChange.insert)
    ELSE Conflict(localTxt, "Changes modify the same region.")

\* merge.ts:196-284, the path taken when no two of the three texts are equal.
generalMerge(baseTxt, localTxt, remoteTxt) ==
    LET base == splitLines(baseTxt)
        localChanges == changesFromDiff(diffTokens(base, splitLines(localTxt)))
        remoteChanges == changesFromDiff(diffTokens(base, splitLines(remoteTxt)))
    IN mergeWalk(base, localTxt, localChanges, remoteChanges, 1, 1, 0, <<>>)

threeWayMergeText_noFastPath(baseTxt, localTxt, remoteTxt) ==
    generalMerge(baseTxt, localTxt, remoteTxt)

threeWayMergeText_keepsLocal(baseTxt, localTxt, remoteTxt) ==
    IF localTxt = remoteTxt THEN Clean(localTxt)
    ELSE IF baseTxt = localTxt THEN Clean(localTxt)
    ELSE IF baseTxt = remoteTxt THEN Clean(localTxt)
    ELSE generalMerge(baseTxt, localTxt, remoteTxt)

threeWayMergeText(baseTxt, localTxt, remoteTxt) ==
    IF localTxt = remoteTxt THEN Clean(localTxt)
    ELSE IF baseTxt = localTxt THEN Clean(remoteTxt)
    ELSE IF baseTxt = remoteTxt THEN Clean(localTxt)
    ELSE generalMerge(baseTxt, localTxt, remoteTxt)

(***************************************************************************)
(* Blocks <-> markdown (src/unnamed/part_005).  A block is [type, text];   *)
(* its text is a string (its lines are what <br> separates in the editor's *)
(* inline HTML; the model's block texts carry no other markup, so          *)
(* htmlInlineToMarkdown and normalizeInlineMarkdown only convert the line  *)
(* breaks).  Block ids are not modelled.                                   *)
(***************************************************************************)
createBlock(type, text) == [type |-> type, text |-> text]

EmptyBlocks == <<createBlock("title", EmptyText), createBlock("paragraph", EmptyText)>>

\* part_005:104-178.  Every block of the model has a valid type and string
\* text, so sanitising keeps them all; a second title becomes a heading1.
RECURSIVE demoteLaterTitles(_, _)
demoteLaterTitles(blockList, titleSeen) ==
    IF blockList = <<>> THEN <<>>
    ELSE LET block == Head(blockList) IN
         IF block.type = "title" /\ titleSeen
         THEN <<[block EXCEPT !.type = "heading1"]>> \o demoteLaterTitles(Tail(blockList), TRUE)
         ELSE <<block>> \o demoteLaterTitles(Tail(blockList), titleSeen \/ block.type = "title")

normalizeBlocksForEditor(blockList) ==
    IF blockList = <<>> THEN EmptyBlocks
    ELSE LET sanitized == demoteLaterTitles(blockList, FALSE)
             IsTitle(b) == b.type = "title"
             NotTitle(b) == b.type # "title"
             titles == SelectSeq(sanitized, IsTitle)
             titleFirst == IF titles = <<>>
                           THEN <<createBlock("title", EmptyText)>> \o sanitized
                           ELSE titles \o SelectSeq(sanitized, NotTitle)
         IN IF Len(titleFirst) = 1
            THEN Append(titleFirst, createBlock("paragraph", EmptyText))
            ELSE titleFirst

\* `${prefix}${text}`: the prefix goes in front of the first line.
Prefixed(prefix, text) == [text EXCEPT ![1] = prefix \o text[1]]

StartsWith(text, prefix) ==
    Len(text[1]) >= Len(prefix) /\ SubSeq(text[1], 1, Len(prefix)) = prefix

\* text.slice(n) for an n within the first line.
DropChars(text, n) == [text EXCEPT ![1] = SubSeq(text[1], n + 1, Len(text[1]))]

\* part_005:42-52 followed by .trim() (part_005:184).
markdownInline(block) == Trim(TrimEnd(block.text))

serializeBlock(block) ==
    IF block.type = "title" THEN Trim(Prefixed(<<"#", " ">>, markdownInline(block)))
    ELSE IF block.type = "heading1" THEN Trim(Prefixed(<<"#", "#", " ">>, markdownInline(block)))
    ELSE IF block.type = "heading2" THEN Trim(Prefixed(<<"#", "#", "#", " ">>, markdownInline(block)))
    ELSE markdownInline(block)

\* markdownBlocks.join("\n\n"): one empty line between consecutive blockList.
RECURSIVE joinBlocks(_)
joinBlocks(texts) ==
    IF Len(texts) = 1 THEN texts[1]
    ELSE texts[1] \o << <<>> >> \o joinBlocks(Tail(texts))

serializeBlocksToMarkdown(blockList) ==
    LET source == normalizeBlocksForEditor(blockList)
    IN TrimEnd(joinBlocks([i \in 1..Len(source) |-> serializeBlock(source[i])]))

\* normalized.split(/\n{2,}/g): the pieces between runs of two or more
\* newlines, i.e. the runs of lines between empty lines (normalized is
\* trimmed, so it neither starts nor ends with an empty line).
RECURSIVE splitChunks(_, _)
splitChunks(text, current) ==
    IF text = <<>> THEN (IF current = <<>> THEN <<>> ELSE <<current>>)
    ELSE IF Head(text) = <<>>
         THEN (IF current = <<>> THEN <<>> ELSE <<current>>) \o splitChunks(Tail(text), <<>>)
         ELSE splitChunks(Tail(text), Append(current, Head(text)))

parseChunk(chunk, titleSeen) ==
    LET trimmed == Trim(chunk) IN
    IF StartsWith(trimmed, <<"#", " ">>)
    THEN createBlock(IF titleSeen THEN "heading1" ELSE "title", Trim(DropChars(trimmed, 2)))
    ELSE IF StartsWith(trimmed, <<"#", "#", "#", " ">>)
    THEN createBlock("heading2", Trim(DropChars(trimmed, 4)))
    ELSE IF StartsWith(trimmed, <<"#", "#", " ">>)
    THEN createBlock("heading1", Trim(DropChars(trimmed, 3)))
    ELSE createBlock("paragraph", chunk)

RECURSIVE parseChunks(_, _)
parseChunks(chunks, titleSeen) ==
    IF chunks = <<>> THEN <<>>
    ELSE LET chunk == Head(chunks) IN
         IF Trim(chunk) = EmptyText THEN parseChunks(Tail(chunks), titleSeen)
         ELSE LET block == parseChunk(chunk, titleSeen)
              IN <<block>> \o parseChunks(Tail(chunks), titleSeen \/ block.type = "title")

parseMarkdownToBlocks(markdown) ==
    LET normalized == Trim(NormalizeNewlines(markdown)) IN
    IF normalized = EmptyText THEN EmptyBlocks
    ELSE normalizeBlocksForEditor(parseChunks(splitChunks(normalized, <<>>), FALSE))

\* Not in src/ (the markdown module that exports it is missing): a document has
\* meaningful content when some block's text is non-empty beyond whitespace.
hasMeaningfulBlocksContent(blockList) ==
    \E i \in 1..Len(blockList) : Trim(blockList[i].text) # EmptyText

NoResult == [status |-> "none", merged |-> EmptyText, reason |-> "none"]

(***************************************************************************)
(* useDropboxSync (src/unnamed/part_016): values                           *)
(*                                                                         *)
(* The catalog holds the two manuscripts of FileIds throughout.  Time is a *)
(* logical clock; Dropbox revs and Date.now() stamps are clock readings,   *)
(* and null (no rev, never synced) is Null.  updatedAt, file names and the *)
(* cloud-ahead markers are not modelled.  The state and the ref the hook   *)
(* keeps for the token and for the active file id are one variable each,   *)
(* and a callback reads the state of the latest render.  Two facts of the  *)
(* moment of a call are its inputs: whether the browser is online, and     *)
(* whether the access token is within a minute of its expiry, so that      *)
(* ensureValidDropboxToken has to refresh it.                              *)
(***************************************************************************)
FileIds == {"f1", "f2"}

Null == 0

NoDocument ==
    [exists |-> FALSE, blocks |-> <<>>, lastSyncedAt |-> Null,
     baseMarkdown |-> EmptyText, remoteRev |-> Null]

StoredDocument(docBlocks, syncedAt, base, rev) ==
    [exists |-> TRUE, blocks |-> docBlocks, lastSyncedAt |-> syncedAt,
     baseMarkdown |-> base, remoteRev |-> rev]

createEmptyStoredDocument == StoredDocument(EmptyBlocks, Null, EmptyText, Null)

normalizeStoredDocument(doc) == [doc EXCEPT !.blocks = normalizeBlocksForEditor(doc.blocks)]

NoRemoteFile == [exists |-> FALSE, content |-> EmptyText, rev |-> Null]

DropboxFile(content, rev) == [exists |-> TRUE, content |-> content, rev |-> rev]

NoToken == 0

NoConflict ==
    [open |-> FALSE, fileId |-> "none", base |-> EmptyText, local |-> EmptyText,
     remote |-> EmptyText, resolved |-> EmptyText, reason |-> "none"]

ConflictState(fileId, base, local, remote, reason) ==
    [open |-> TRUE, fileId |-> fileId, base |-> base, local |-> local,
     remote |-> remote, resolved |-> local, reason |-> reason]

FirstSyncReason == "This manuscript has local and Dropbox drafts. Choose one or merge manually."

ReconnectNotice == "Dropbox session expired. Please reconnect Dropbox."

\* The notices that name the manuscript are kept without the name.
ConflictNotice == "Conflict in the manuscript."

SyncCompleteNotice == "Dropbox sync complete."

ResolvedNotice == "Conflict resolved."

\* The message of a rejected remote call is the response body behind a fixed
\* prefix that matches none of the patterns; the model keeps the body.
AuthDetails == {"invalid_grant", "invalid_access_token", "expired_access_token", "401"}

ErrorDetails == {"expired_access_token", "Failed to fetch"}

RefreshErrorDetails == {"invalid_grant", "Failed to fetch"}

\* Reading .accessToken of a token ref that was cleared during the await.
NullTokenDetail == "Cannot read properties of null"

isDropboxAuthError_never(errorMessage) == FALSE

isDropboxAuthError(errorMessage) == errorMessage \in AuthDetails

\* The in-memory document of the latest render, as the autosave effect and
\* persistCurrentActiveSnapshot package it.
Payload == StoredDocument(blocks, lastSyncedAt, baseMarkdown, remoteRev)

\* ---- calls in flight ----
MaxInFlight == 2

SyncSlots == 1..MaxInFlight

IdleSync ==
    [pc |-> "idle", fileId |-> "none", blocks |-> <<>>, baseMarkdown |-> EmptyText,
     remoteRev |-> Null, lastSyncedAt |-> Null, remoteFile |-> NoRemoteFile,
     merged |-> EmptyText, latestRev |-> Null, now |-> Null, uploads |-> 0,
     edits |-> 0]

IdleResolve == [pc |-> "idle", conflict |-> NoConflict, rev |-> Null, now |-> Null]

IdleSelect == [pc |-> "idle", fileId |-> "none", isOnline |-> FALSE]

IdlePull == [pc |-> "idle", snapshot |-> NoDocument]

SyncsInFlight == { a \in SyncSlots : syncCalls[a].pc # "idle" }

MaxEdits == 2

MaxCalls == 2

CallsHaveRoom == callCount < MaxCalls

MaxRemoteWrites == 1

\* ---- the documents the user types and other devices upload ----
DocA == <<createBlock("title", << <<"T">> >>), createBlock("paragraph", << <<"A">> >>)>>

DocB == <<createBlock("title", << <<"T">> >>), createBlock("paragraph", << <<"B">> >>)>>

\* Text typed below a title that was left empty.
DocUntitled == <<createBlock("title", EmptyText), createBlock("paragraph", << <<"A">> >>)>>

EditChoices == {EmptyBlocks, DocA, DocB, DocUntitled}

WhitespaceText == << <<" ">> >>

RemoteTexts == {serializeBlocksToMarkdown(DocB), WhitespaceText}

(***************************************************************************)
(* useDropboxSync: the environment, the editor and the effects             *)
(***************************************************************************)
docState == <<blocks, baseMarkdown, remoteRev, lastSyncedAt>>

flagVars == <<isSyncing, isPulling>>

callVars == <<syncCalls, resolveCall, selectCall, pullCall>>

envVars == <<clock, remoteDocs>>

RefreshesInFlight ==
    Cardinality({ a \in SyncSlots : syncCalls[a].pc = "token" })
    + (IF resolveCall.pc = "token" THEN 1 ELSE 0)
    + (IF pullCall.pc = "token" THEN 1 ELSE 0)

MaxTokens == 2

TokenHasRoom == dropboxToken + RefreshesInFlight < MaxTokens

\* The user types: the editor replaces the blocks, and the autosave effect
\* (part_016:1387-1410) caches the new payload at once and arms its timer.
Edit(newBlocks) ==
    /\ ~conflict.open
    /\ editCount < MaxEdits
    /\ newBlocks # blocks
    /\ blocks' = newBlocks
    /\ documentCache' = [documentCache EXCEPT ![activeFileId] =
            StoredDocument(newBlocks, lastSyncedAt, baseMarkdown, remoteRev)]
    /\ autosavePending' = TRUE
    /\ editCount' = editCount + 1
    /\ UNCHANGED <<envVars, storedDocs, storedToken, activeFileId, baseMarkdown, remoteRev,
                   lastSyncedAt, dropboxToken, syncNotice, flagVars, conflict, callVars,
                   lastReturn, callCount, remoteWriteCount, otherVars>>

\* The autosave timer fires 500 ms after the last change of the document state.
Autosave ==
    /\ autosavePending
    /\ storedDocs' = [storedDocs EXCEPT ![activeFileId] = Payload]
    /\ autosavePending' = FALSE
    /\ UNCHANGED <<envVars, storedToken, activeFileId, docState, documentCache, dropboxToken,
                   syncNotice, flagVars, conflict, callVars, lastReturn, editCount, callCount, remoteWriteCount, otherVars>>

\* setDropboxToken, with the token effect of the render it causes
\* (part_016:1425-1431), which writes the new token to the store.
SetDropboxToken(token) ==
    /\ dropboxToken' = token
    /\ storedToken' = token

\* Another device uploads a manuscript.
RemoteWrite(fileId, text) ==
    /\ remoteWriteCount < MaxRemoteWrites
    /\ remoteWriteCount' = remoteWriteCount + 1
    /\ remoteDocs[fileId].content # text \/ ~remoteDocs[fileId].exists
    /\ clock' = clock + 1
    /\ remoteDocs' = [remoteDocs EXCEPT ![fileId] = DropboxFile(text, clock + 1)]
    /\ UNCHANGED <<storedDocs, storedToken, activeFileId, docState,
                   documentCache, dropboxToken, syncNotice, flagVars, conflict,
                   autosavePending, callVars, lastReturn, editCount, callCount, otherVars>>

\* Another device, or the user in Dropbox, deletes a manuscript: the
\* download then answers 409 (main.tsx:226-228).
RemoteDelete(fileId) ==
    /\ remoteWriteCount < MaxRemoteWrites
    /\ remoteWriteCount' = remoteWriteCount + 1
    /\ remoteDocs[fileId].exists
    /\ remoteDocs' = [remoteDocs EXCEPT ![fileId] = NoRemoteFile]
    /\ UNCHANGED <<clock, storedDocs, storedToken, activeFileId, docState,
                   documentCache, dropboxToken, syncNotice, flagVars, conflict,
                   autosavePending, callVars, lastReturn, editCount, callCount, otherVars>>

disconnectDropbox ==
    /\ dropboxToken # NoToken
    /\ CallsHaveRoom
    /\ callCount' = callCount + 1
    /\ SetDropboxToken(NoToken)
    /\ conflict' = NoConflict
    /\ syncNotice' = "Dropbox disconnected locally."
    /\ UNCHANGED <<envVars, storedDocs, activeFileId, docState, documentCache,
                   flagVars, autosavePending, callVars, lastReturn, editCount, remoteWriteCount, otherVars>>

\* ConflictModal: the user picks a side as the resolved text, or closes the modal.
ChooseResolved(text) ==
    /\ conflict.open
    /\ ~isSyncing
    /\ text # conflict.resolved
    /\ conflict' = [conflict EXCEPT !.resolved = text]
    /\ UNCHANGED <<envVars, storedDocs, storedToken, activeFileId, docState, documentCache,
                   dropboxToken, syncNotice, flagVars, autosavePending, callVars, lastReturn,
                   editCount, callCount, remoteWriteCount, otherVars>>

CloseConflict ==
    /\ conflict.open
    /\ conflict' = NoConflict
    /\ UNCHANGED <<envVars, storedDocs, storedToken, activeFileId, docState, documentCache,
                   dropboxToken, syncNotice, flagVars, autosavePending, callVars, lastReturn,
                   editCount, callCount, remoteWriteCount, otherVars>>

(***************************************************************************)
(* syncWithDropbox (part_016:944-1108)                                     *)
(***************************************************************************)
\* part_016:945
syncInFlightGuard_pullOnly == isPulling

syncInFlightGuard == isSyncing \/ isPulling

FreeSyncSlot == CHOOSE a \in SyncSlots : syncCalls[a].pc = "idle" /\ \A b \in 1..(a - 1) : syncCalls[b].pc # "idle"

\* The call: the guards, then setIsSyncing(true) and the token check.  The
\* callback closes over blocks, baseMarkdown, remoteRev and lastSyncedAt.
\* edits records how many edits the user had made when the call captured
\* them, so that an edit made while the call is in flight can be told apart.
syncWithDropbox(isOnline, tokenExpired) ==
    \/ /\ syncInFlightGuard
       /\ lastReturn' = "rejected"
       /\ UNCHANGED <<envVars, storedDocs, storedToken, activeFileId, docState, documentCache,
                      dropboxToken, syncNotice, flagVars, conflict, autosavePending, callVars,
                      editCount, callCount, remoteWriteCount, otherVars>>
    \/ /\ ~syncInFlightGuard
       /\ dropboxToken = NoToken \/ ~isOnline
       /\ syncNotice' = IF dropboxToken = NoToken THEN "Connect Dropbox first."
                        ELSE "Offline. Changes stay in IndexedDB until reconnect."
       /\ lastReturn' = "refused"
       /\ UNCHANGED <<envVars, storedDocs, storedToken, activeFileId, docState, documentCache,
                      dropboxToken, flagVars, conflict, autosavePending, callVars, editCount, callCount,
                      remoteWriteCount, otherVars>>
    \/ /\ ~syncInFlightGuard
       /\ dropboxToken # NoToken
       /\ isOnline
       /\ CallsHaveRoom
       /\ callCount' = callCount + 1
       /\ \E a \in SyncSlots : syncCalls[a].pc = "idle"
       /\ tokenExpired => TokenHasRoom
       /\ isSyncing' = TRUE
       /\ lastReturn' = "started"
       /\ syncCalls' = [syncCalls EXCEPT ![FreeSyncSlot] =
              [IdleSync EXCEPT !.pc = IF tokenExpired THEN "token" ELSE "download",
                               !.fileId = activeFileId,
                               !.blocks = blocks,
                               !.baseMarkdown = baseMarkdown,
                               !.remoteRev = remoteRev,
                               !.lastSyncedAt = lastSyncedAt,
                               !.edits = editCount]]
       /\ UNCHANGED <<envVars, storedDocs, storedToken, activeFileId, docState, documentCache,
                      dropboxToken, syncNotice, isPulling, conflict, autosavePending,
                      resolveCall, selectCall, pullCall, editCount, remoteWriteCount, otherVars>>
SyncCatch_leavesFlag(a, detail) ==
    /\ IF isDropboxAuthError(detail)
       THEN SetDropboxToken(NoToken) /\ syncNotice' = ReconnectNotice
       ELSE UNCHANGED <<dropboxToken, storedToken>> /\ syncNotice' = detail
    /\ syncCalls' = [syncCalls EXCEPT ![a] = IdleSync]
    /\ UNCHANGED <<envVars, storedDocs, activeFileId, docState, documentCache,
                   flagVars, conflict, autosavePending, resolveCall, selectCall, pullCall,
                   lastReturn, editCount, callCount, remoteWriteCount, otherVars>>

\* catch and finally (part_016:1082-1096).
SyncCatch(a, detail) ==
    /\ IF isDropboxAuthError(detail)
       THEN SetDropboxToken(NoToken) /\ syncNotice' = ReconnectNotice
       ELSE UNCHANGED <<dropboxToken, storedToken>> /\ syncNotice' = detail
    /\ isSyncing' = FALSE
    /\ syncCalls' = [syncCalls EXCEPT ![a] = IdleSync]
    /\ UNCHANGED <<envVars, storedDocs, activeFileId, docState, documentCache,
                   isPulling, conflict, autosavePending, resolveCall, selectCall, pullCall,
                   lastReturn, editCount, callCount, remoteWriteCount, otherVars>>

\* await ensureValidDropboxToken, for a token that needed a refresh (979-987).
SyncTokenRefreshed(a) ==
    /\ syncCalls[a].pc = "token"
    /\ \/ \E detail \in RefreshErrorDetails : SyncCatch(a, detail)
       \/ /\ dropboxToken = NoToken
          /\ SyncCatch(a, NullTokenDetail)
       \/ /\ dropboxToken # NoToken
          /\ SetDropboxToken(dropboxToken + 1)
          /\ syncCalls' = [syncCalls EXCEPT ![a].pc = "download"]
          /\ UNCHANGED <<clock, remoteDocs, storedDocs, activeFileId,
                         docState, documentCache, syncNotice, flagVars, conflict,
                         autosavePending, resolveCall, selectCall, pullCall, lastReturn,
                         editCount, callCount, remoteWriteCount, otherVars>>

SyncConflict_adoptsRemote(a, newConflict) ==
    /\ conflict' = newConflict
    /\ syncNotice' = ConflictNotice
    /\ isSyncing' = FALSE
    /\ syncCalls' = [syncCalls EXCEPT ![a] = IdleSync]
    /\ baseMarkdown' = newConflict.remote
    /\ UNCHANGED <<envVars, storedDocs, storedToken, activeFileId, blocks, remoteRev,
                   lastSyncedAt, documentCache, dropboxToken, isPulling, autosavePending,
                   resolveCall, selectCall, pullCall, lastReturn, editCount, callCount,
                   remoteWriteCount, otherVars>>

\* part_016:1002-1020 and 1024-1036: populate the conflict and return false.
SyncConflict(a, newConflict) ==
    /\ conflict' = newConflict
    /\ syncNotice' = ConflictNotice
    /\ isSyncing' = FALSE
    /\ syncCalls' = [syncCalls EXCEPT ![a] = IdleSync]
    /\ UNCHANGED <<envVars, storedDocs, storedToken, activeFileId, docState, documentCache,
                   dropboxToken, isPulling, autosavePending, resolveCall, selectCall,
                   pullCall, lastReturn, editCount, callCount, remoteWriteCount, otherVars>>

\* part_016:992-1000, over the values the call closed over.
mergeLocalMarkdown(call) ==
    IF hasMeaningfulBlocksContent(call.blocks) THEN serializeBlocksToMarkdown(call.blocks) ELSE EmptyText

remoteMarkdown(remoteFile) == IF remoteFile.exists THEN remoteFile.content ELSE EmptyText

remoteHasContent(remoteFile) ==
    hasMeaningfulBlocksContent(parseMarkdownToBlocks(remoteMarkdown(remoteFile)))

mergeRemoteMarkdown(remoteFile) ==
    IF remoteHasContent(remoteFile) THEN remoteMarkdown(remoteFile) ELSE EmptyText

isFirstSync(call) ==
    call.lastSyncedAt = Null /\ call.remoteRev = Null /\ Trim(call.baseMarkdown) = EmptyText

firstSyncConflict_never(call, remoteFile) == FALSE

firstSyncConflict(call, remoteFile) ==
    /\ isFirstSync(call)
    /\ remoteFile.exists
    /\ hasMeaningfulBlocksContent(call.blocks)
    /\ remoteHasContent(remoteFile)
    /\ mergeLocalMarkdown(call) # mergeRemoteMarkdown(remoteFile)

\* part_016:1041
needsUpload_always(remoteFile, mergedMarkdown) == TRUE

needsUpload(remoteFile, mergedMarkdown) ==
    ~remoteFile.exists \/ mergedMarkdown # mergeRemoteMarkdown(remoteFile)

\* part_016:1050-1059
mergedDocument(call) ==
    StoredDocument(normalizeBlocksForEditor(parseMarkdownToBlocks(call.merged)),
                   call.now, call.merged, call.latestRev)

\* await dropboxDownloadFile, then everything up to the next await (989-1061).
SyncDownloaded(a) ==
    /\ syncCalls[a].pc = "download"
    /\ \/ \E detail \in ErrorDetails : SyncCatch(a, detail)
       \/ LET call == syncCalls[a]
              remoteFile == remoteDocs[call.fileId]
              local == mergeLocalMarkdown(call)
              remote == mergeRemoteMarkdown(remoteFile)
              result == threeWayMergeText(call.baseMarkdown, local, remote)
          IN IF firstSyncConflict(call, remoteFile)
             THEN SyncConflict(a, ConflictState(call.fileId, EmptyText, local, remote, FirstSyncReason))
             ELSE IF result.status = "conflict"
             THEN SyncConflict(a, ConflictState(call.fileId, call.baseMarkdown, local, remote, result.reason))
             ELSE IF needsUpload(remoteFile, result.merged)
             THEN /\ syncCalls' = [syncCalls EXCEPT ![a] =
                         [call EXCEPT !.pc = "upload", !.remoteFile = remoteFile,
                                      !.merged = result.merged]]
                  /\ UNCHANGED <<envVars, storedDocs, storedToken, activeFileId, docState,
                                 documentCache, dropboxToken, syncNotice, flagVars, conflict,
                                 autosavePending, resolveCall, selectCall, pullCall,
                                 lastReturn, editCount, callCount, remoteWriteCount, otherVars>>
             ELSE LET done == [call EXCEPT !.pc = "store", !.remoteFile = remoteFile,
                                           !.merged = result.merged,
                                           !.latestRev = remoteFile.rev,
                                           !.now = clock + 1]
                  IN /\ clock' = clock + 1
                     /\ syncCalls' = [syncCalls EXCEPT ![a] = done]
                     /\ documentCache' = [documentCache EXCEPT ![call.fileId] = mergedDocument(done)]
                     /\ UNCHANGED <<remoteDocs, storedDocs, storedToken,
                                    activeFileId, docState, dropboxToken, syncNotice, flagVars,
                                    conflict, autosavePending, resolveCall, selectCall,
                                    pullCall, lastReturn, editCount, callCount, remoteWriteCount, otherVars>>

\* await dropboxUploadFile (1042-1048), then up to the next await (1050-1061).
SyncUploaded(a) ==
    /\ syncCalls[a].pc = "upload"
    /\ \/ \E detail \in ErrorDetails : SyncCatch(a, detail)
       \/ LET call == syncCalls[a]
              done == [call EXCEPT !.pc = "store", !.latestRev = clock + 1,
                                   !.now = clock + 1, !.uploads = call.uploads + 1]
          IN /\ clock' = clock + 1
             /\ remoteDocs' = [remoteDocs EXCEPT ![call.fileId] = DropboxFile(call.merged, clock + 1)]
             /\ syncCalls' = [syncCalls EXCEPT ![a] = done]
             /\ documentCache' = [documentCache EXCEPT ![call.fileId] = mergedDocument(done)]
             /\ UNCHANGED <<storedDocs, storedToken, activeFileId,
                            docState, dropboxToken, syncNotice, flagVars, conflict,
                            autosavePending, resolveCall, selectCall, pullCall, lastReturn,
                            editCount, callCount, remoteWriteCount, otherVars>>

\* await setStoredDocument, then the state updates (1062-1081) and the
\* autosave effect of the render they cause.
SyncStored(a) ==
    /\ syncCalls[a].pc = "store"
    /\ LET call == syncCalls[a]
           doc == mergedDocument(call)
       IN /\ storedDocs' = [storedDocs EXCEPT ![call.fileId] = doc]
          /\ blocks' = doc.blocks
          /\ baseMarkdown' = doc.baseMarkdown
          /\ remoteRev' = doc.remoteRev
          /\ lastSyncedAt' = doc.lastSyncedAt
          /\ documentCache' = [documentCache EXCEPT ![activeFileId] = doc]
          /\ autosavePending' = TRUE
    /\ conflict' = NoConflict
    /\ syncNotice' = SyncCompleteNotice
    /\ isSyncing' = FALSE
    /\ syncCalls' = [syncCalls EXCEPT ![a] = IdleSync]
    /\ UNCHANGED <<envVars, storedToken, activeFileId, dropboxToken, isPulling, resolveCall,
                   selectCall, pullCall, lastReturn, editCount, callCount, remoteWriteCount, otherVars>>

(***************************************************************************)
(* resolveConflict (part_016:1181-1250)                                    *)
(***************************************************************************)
\* The call; the modal's save button is disabled while isSyncing
\* (ConflictModal.tsx:368).  The callback closes over the conflict.
resolveDisabled_never == FALSE

\* disabled={isSyncing} on the modal's save button (ConflictModal.tsx:368).
resolveDisabled == isSyncing

resolveConflict(tokenExpired) ==
    /\ ~resolveDisabled
    /\ conflict.open
    /\ dropboxToken # NoToken
    /\ resolveCall.pc = "idle"
    /\ CallsHaveRoom
    /\ callCount' = callCount + 1
    /\ tokenExpired => TokenHasRoom
    /\ isSyncing' = TRUE
    /\ resolveCall' = [IdleResolve EXCEPT !.pc = IF tokenExpired THEN "token" ELSE "upload",
                                          !.conflict = conflict]
    /\ UNCHANGED <<envVars, storedDocs, storedToken, activeFileId, docState, documentCache,
                   dropboxToken, syncNotice, isPulling, conflict, autosavePending, syncCalls,
                   selectCall, pullCall, lastReturn, editCount, remoteWriteCount, otherVars>>

ResolveCatch(detail) ==
    /\ IF isDropboxAuthError(detail)
       THEN SetDropboxToken(NoToken) /\ syncNotice' = ReconnectNotice
       ELSE UNCHANGED <<dropboxToken, storedToken>> /\ syncNotice' = detail
    /\ isSyncing' = FALSE
    /\ resolveCall' = IdleResolve
    /\ UNCHANGED <<envVars, storedDocs, activeFileId, docState, documentCache,
                   isPulling, conflict, autosavePending, syncCalls, selectCall, pullCall,
                   lastReturn, editCount, callCount, remoteWriteCount, otherVars>>

ResolveTokenRefreshed ==
    /\ resolveCall.pc = "token"
    /\ \/ \E detail \in RefreshErrorDetails : ResolveCatch(detail)
       \/ /\ dropboxToken = NoToken
          /\ ResolveCatch(NullTokenDetail)
       \/ /\ dropboxToken # NoToken
          /\ SetDropboxToken(dropboxToken + 1)
          /\ resolveCall' = [resolveCall EXCEPT !.pc = "upload"]
          /\ UNCHANGED <<clock, remoteDocs, storedDocs, activeFileId,
                         docState, documentCache, syncNotice, flagVars, conflict,
                         autosavePending, syncCalls, selectCall, pullCall, lastReturn,
                         editCount, callCount, remoteWriteCount, otherVars>>

resolvedDocument_keepsBase(call) ==
    StoredDocument(normalizeBlocksForEditor(parseMarkdownToBlocks(call.conflict.resolved)),
                   call.now, call.conflict.base, call.rev)

\* part_016:1204-1213
resolvedDocument(call) ==
    StoredDocument(normalizeBlocksForEditor(parseMarkdownToBlocks(call.conflict.resolved)),
                   call.now, call.conflict.resolved, call.rev)

\* await dropboxUploadFile (1199-1203), then up to the next await (1204-1215).
ResolveUploaded ==
    /\ resolveCall.pc = "upload"
    /\ \/ \E detail \in ErrorDetails : ResolveCatch(detail)
       \/ LET done == [resolveCall EXCEPT !.pc = "store", !.rev = clock + 1, !.now = clock + 1]
          IN /\ clock' = clock + 1
             /\ remoteDocs' = [remoteDocs EXCEPT ![done.conflict.fileId] =
                     DropboxFile(done.conflict.resolved, clock + 1)]
             /\ resolveCall' = done
             /\ documentCache' = [documentCache EXCEPT ![done.conflict.fileId] = resolvedDocument(done)]
             /\ UNCHANGED <<storedDocs, storedToken, activeFileId,
                            docState, dropboxToken, syncNotice, flagVars, conflict,
                            autosavePending, syncCalls, selectCall, pullCall, lastReturn,
                            editCount, callCount, remoteWriteCount, otherVars>>

\* await setStoredDocument, then the state updates (1216-1236).
ResolveStored ==
    /\ resolveCall.pc = "store"
    /\ LET doc == resolvedDocument(resolveCall)
           fileId == resolveCall.conflict.fileId
       IN /\ storedDocs' = [storedDocs EXCEPT ![fileId] = doc]
          /\ IF fileId = activeFileId
             THEN /\ blocks' = doc.blocks
                  /\ baseMarkdown' = doc.baseMarkdown
                  /\ remoteRev' = doc.remoteRev
                  /\ lastSyncedAt' = doc.lastSyncedAt
                  /\ documentCache' = [documentCache EXCEPT ![activeFileId] = doc]
                  /\ autosavePending' = TRUE
             ELSE UNCHANGED <<docState, documentCache, autosavePending>>
    /\ conflict' = NoConflict
    /\ syncNotice' = ResolvedNotice
    /\ isSyncing' = FALSE
    /\ resolveCall' = IdleResolve
    /\ UNCHANGED <<envVars, storedToken, activeFileId, dropboxToken, isPulling, syncCalls,
                   selectCall, pullCall, lastReturn, editCount, callCount, remoteWriteCount, otherVars>>

(***************************************************************************)
(* selectFile (part_016:691-740)                                           *)
(***************************************************************************)
\* The file actions of the panel are disabled while isSyncing or while the
\* conflict modal is open (SyncPanel.tsx:95, 213).
fileActionsDisabled == isSyncing \/ conflict.open

\* The call, up to the end of persistCurrentActiveSnapshot (549-567).
selectFile(fileId, isOnline) ==
    /\ ~fileActionsDisabled
    /\ fileId # activeFileId
    /\ selectCall.pc = "idle"
    /\ CallsHaveRoom
    /\ callCount' = callCount + 1
    /\ documentCache' = [documentCache EXCEPT ![activeFileId] = Payload]
    /\ storedDocs' = [storedDocs EXCEPT ![activeFileId] = Payload]
    /\ selectCall' = [pc |-> "load", fileId |-> fileId, isOnline |-> isOnline]
    /\ UNCHANGED <<envVars, storedToken, activeFileId, docState, dropboxToken, syncNotice,
                   flagVars, conflict, autosavePending, syncCalls, resolveCall, pullCall,
                   lastReturn, editCount, remoteWriteCount, otherVars>>

\* tryLoadDropboxDocument (524-547): the document a remote file hydrates.
remoteDocument(remoteFile, now) ==
    StoredDocument(normalizeBlocksForEditor(parseMarkdownToBlocks(remoteFile.content)),
                   now, remoteFile.content, remoteFile.rev)

\* applyDocumentToEditor (395-406) on the switch, with the autosave effect.
SwitchTo(fileId, doc, cache) ==
    LET normalized == normalizeStoredDocument(doc)
    IN /\ activeFileId' = fileId
       /\ conflict' = NoConflict
       /\ blocks' = normalized.blocks
       /\ baseMarkdown' = normalized.baseMarkdown
       /\ remoteRev' = normalized.remoteRev
       /\ lastSyncedAt' = normalized.lastSyncedAt
       /\ documentCache' = [cache EXCEPT ![fileId] = normalized]
       /\ autosavePending' = TRUE
       /\ syncNotice' = "Editing the manuscript."
       /\ selectCall' = IdleSelect

\* The rest of the call (702-739): the cached or stored document, else the
\* remote one, else an empty one.
SelectLoaded(tokenExpired) ==
    /\ selectCall.pc = "load"
    /\ LET fileId == selectCall.fileId
           existing == IF documentCache[fileId].exists THEN documentCache[fileId]
                       ELSE storedDocs[fileId]
       IN \/ /\ existing.exists
             /\ SwitchTo(fileId, normalizeStoredDocument(existing), documentCache)
             /\ UNCHANGED <<envVars, storedDocs, dropboxToken, storedToken>>
          \/ /\ ~existing.exists
             /\ dropboxToken # NoToken
             /\ selectCall.isOnline
             /\ remoteDocs[fileId].exists
             /\ tokenExpired => dropboxToken < MaxTokens
             /\ LET doc == remoteDocument(remoteDocs[fileId], clock + 1)
                IN /\ clock' = clock + 1
                   /\ storedDocs' = [storedDocs EXCEPT ![fileId] = doc]
                   /\ SwitchTo(fileId, doc, documentCache)
             /\ IF tokenExpired THEN SetDropboxToken(dropboxToken + 1)
                ELSE UNCHANGED <<dropboxToken, storedToken>>
             /\ UNCHANGED remoteDocs
          \/ /\ ~existing.exists
             /\ storedDocs' = [storedDocs EXCEPT ![fileId] = createEmptyStoredDocument]
             /\ SwitchTo(fileId, createEmptyStoredDocument, documentCache)
             /\ UNCHANGED <<envVars, dropboxToken, storedToken>>
    /\ UNCHANGED <<flagVars, syncCalls, resolveCall, pullCall, lastReturn,
                   editCount, callCount, remoteWriteCount, otherVars>>

(***************************************************************************)
(* pullFileCatalog (part_016:1110-1162)                                    *)
(***************************************************************************)
\* The pull button is disabled by the file-action gate, when disconnected,
\* when offline and while pulling (SyncPanel.tsx:256).  The callback closes
\* over persistCurrentActiveSnapshot and with it over the document state.
pullFileCatalog(tokenExpired) ==
    /\ ~fileActionsDisabled
    /\ ~isPulling
    /\ dropboxToken # NoToken
    /\ pullCall.pc = "idle"
    /\ CallsHaveRoom
    /\ callCount' = callCount + 1
    /\ tokenExpired => TokenHasRoom
    /\ isPulling' = TRUE
    /\ IF tokenExpired
       THEN /\ pullCall' = [pc |-> "token", snapshot |-> Payload]
            /\ UNCHANGED <<storedDocs, documentCache>>
       ELSE /\ pullCall' = [pc |-> "catalog", snapshot |-> NoDocument]
            /\ documentCache' = [documentCache EXCEPT ![activeFileId] = Payload]
            /\ storedDocs' = [storedDocs EXCEPT ![activeFileId] = Payload]
    /\ UNCHANGED <<envVars, storedToken, activeFileId, docState, dropboxToken, syncNotice,
                   isSyncing, conflict, autosavePending, syncCalls, resolveCall, selectCall,
                   lastReturn, editCount, remoteWriteCount, otherVars>>

PullCatch(detail) ==
    /\ IF isDropboxAuthError(detail)
       THEN SetDropboxToken(NoToken) /\ syncNotice' = ReconnectNotice
       ELSE UNCHANGED <<dropboxToken, storedToken>> /\ syncNotice' = detail
    /\ isPulling' = FALSE
    /\ pullCall' = IdlePull
    /\ UNCHANGED <<envVars, storedDocs, activeFileId, docState, documentCache,
                   isSyncing, conflict, autosavePending, syncCalls, resolveCall, selectCall,
                   lastReturn, editCount, callCount, remoteWriteCount, otherVars>>

\* await ensureValidDropboxToken (1133-1141), then persistCurrentActiveSnapshot
\* (1143) with the document state the call closed over.
PullTokenRefreshed ==
    /\ pullCall.pc = "token"
    /\ \/ \E detail \in RefreshErrorDetails : PullCatch(detail)
       \/ /\ dropboxToken = NoToken
          /\ PullCatch(NullTokenDetail)
       \/ /\ dropboxToken # NoToken
          /\ SetDropboxToken(dropboxToken + 1)
          /\ documentCache' = [documentCache EXCEPT ![activeFileId] = pullCall.snapshot]
          /\ storedDocs' = [storedDocs EXCEPT ![activeFileId] = pullCall.snapshot]
          /\ pullCall' = [pc |-> "catalog", snapshot |-> NoDocument]
          /\ UNCHANGED <<clock, remoteDocs, activeFileId, docState,
                         syncNotice, flagVars, conflict, autosavePending, syncCalls,
                         resolveCall, selectCall, lastReturn, editCount, callCount, remoteWriteCount, otherVars>>

\* await syncFileCatalogWithDropbox (1144): both catalogs list the same
\* manuscripts, so the refresh changes neither the catalog nor a document.
PullCatalogSynced ==
    /\ pullCall.pc = "catalog"
    /\ \/ \E detail \in ErrorDetails : PullCatch(detail)
       \/ /\ syncNotice' = "Pulled latest manuscript list from Dropbox."
          /\ isPulling' = FALSE
          /\ pullCall' = IdlePull
          /\ UNCHANGED <<envVars, storedDocs, storedToken, activeFileId, docState,
                         documentCache, dropboxToken, isSyncing, conflict, autosavePending,
                         syncCalls, resolveCall, selectCall, lastReturn, editCount, callCount, remoteWriteCount, otherVars>>

(***************************************************************************)
(* The orchestrator as a state machine.  Init is the state after the       *)
(* bootstrap effect: a connected editor on a new empty manuscript f1, with *)
(* nothing stored for f2 and nothing on Dropbox.                           *)
(***************************************************************************)
MergeIdle ==
    /\ baseText = EmptyText
    /\ localText = EmptyText
    /\ remoteText = EmptyText
    /\ mergeResult = NoResult
    /\ remergeResult = NoResult
    /\ mergePc = "off"

\* The dependencies of the refreshCatalog effect that the model holds
\* (part_016:1457), and its guard (1434).
refreshCatalogDeps ==
    [dropboxToken |-> dropboxToken, isOnline |-> navigatorOnLine,
     isPulling |-> isPulling, isSyncing |-> isSyncing]

refreshCatalogGuard ==
    dropboxToken # NoToken /\ navigatorOnLine /\ ~isSyncing /\ ~isPulling

\* Online, with every effect run and no background refresh in flight.
OnlineIdle ==
    /\ navigatorOnLine = TRUE
    /\ effectDeps = refreshCatalogDeps
    /\ catalogRefreshing = 0
    /\ onlineToggles = 0

\* No conflict modal.
HunksIdle ==
    /\ conflictRemote = EmptyText
    /\ conflictLocal = EmptyText
    /\ hunkChoices = <<>>
    /\ resolvedMarkdown = EmptyText

\* No catalog merge.
CatalogIdle ==
    /\ localFiles = <<>>
    /\ remoteFiles = <<>>
    /\ mergedFiles = <<>>
    /\ catalogPc = "off"

\* No call of ensureValidDropboxToken.
TokenIdle ==
    /\ dateNow = 0
    /\ tokenArg = <<>>
    /\ tokenPayload = <<>>
    /\ tokenResult = <<>>
    /\ tokenRequests = 0
    /\ tokenPc = "off"

\* No OAuth callback.
AuthIdle ==
    /\ locationCode = ""
    /\ locationState = ""
    /\ sessionState = ""
    /\ sessionVerifier = ""
    /\ exchangeRequests = 0
    /\ exchangePayload = <<>>
    /\ oauthToken = <<>>
    /\ hookToken = <<>>
    /\ authNotice = ""
    /\ authPc = "off"

WorkspaceIdle ==
    /\ filesRef = <<>>
    /\ activeFileIdRef = ""
    /\ storedWorkspace = <<>>
    /\ workspaceDocs = <<>>
    /\ remoteCatalogFile = <<>>
    /\ refreshCall = <<>>
    /\ deleteCall = <<>>
    /\ selectTargets = <<>>
    /\ workspaceNow = 0
    /\ workspaceOps = <<>>

InitSync ==
    /\ clock = 0
    /\ remoteDocs = [f \in FileIds |-> NoRemoteFile]
    /\ storedDocs = [f \in FileIds |-> IF f = "f1" THEN createEmptyStoredDocument ELSE NoDocument]
    /\ storedToken = 1
    /\ activeFileId = "f1"
    /\ blocks = EmptyBlocks
    /\ baseMarkdown = EmptyText
    /\ remoteRev = Null
    /\ lastSyncedAt = Null
    /\ documentCache = [f \in FileIds |-> IF f = "f1" THEN createEmptyStoredDocument ELSE NoDocument]
    /\ dropboxToken = 1
    /\ syncNotice = "Offline-first mode active."
    /\ isSyncing = FALSE
    /\ isPulling = FALSE
    /\ conflict = NoConflict
    /\ autosavePending = FALSE
    /\ syncCalls = [a \in SyncSlots |-> IdleSync]
    /\ resolveCall = IdleResolve
    /\ selectCall = IdleSelect
    /\ pullCall = IdlePull
    /\ lastReturn = "none"
    /\ editCount = 0
    /\ callCount = 0
    /\ remoteWriteCount = 0

Init ==
    /\ InitSync /\ MergeIdle /\ OnlineIdle /\ HunksIdle /\ CatalogIdle /\ TokenIdle /\ AuthIdle
    /\ WorkspaceIdle

Next ==
    \/ \E newBlocks \in EditChoices : Edit(newBlocks)
    \/ Autosave
    \/ \E fileId \in FileIds, text \in RemoteTexts : RemoteWrite(fileId, text)
    \/ \E fileId \in FileIds : RemoteDelete(fileId)
    \/ disconnectDropbox
    \/ \E text \in {conflict.local, conflict.remote} : ChooseResolved(text)
    \/ CloseConflict
    \/ \E isOnline, tokenExpired \in BOOLEAN : syncWithDropbox(isOnline, tokenExpired)
    \/ \E a \in SyncSlots : SyncTokenRefreshed(a)
    \/ \E a \in SyncSlots : SyncDownloaded(a)
    \/ \E a \in SyncSlots : SyncUploaded(a)
    \/ \E a \in SyncSlots : SyncStored(a)
    \/ \E tokenExpired \in BOOLEAN : resolveConflict(tokenExpired)
    \/ ResolveTokenRefreshed
    \/ ResolveUploaded
    \/ ResolveStored
    \/ \E fileId \in FileIds, isOnline \in BOOLEAN : selectFile(fileId, isOnline)
    \/ \E tokenExpired \in BOOLEAN : SelectLoaded(tokenExpired)
    \/ \E tokenExpired \in BOOLEAN : pullFileCatalog(tokenExpired)
    \/ PullTokenRefreshed
    \/ PullCatalogSynced

Spec == Init /\ [][Next]_vars

\* A continuation of an asynchronous call that is waiting on a network
\* await; each takes the outcome of its await, success or throw.
AwaitReturns ==
    \/ \E a \in SyncSlots : SyncTokenRefreshed(a)
    \/ \E a \in SyncSlots : SyncDownloaded(a)
    \/ \E a \in SyncSlots : SyncUploaded(a)
    \/ ResolveTokenRefreshed
    \/ ResolveUploaded
    \/ PullTokenRefreshed
    \/ PullCatalogSynced

\* Every awaited network or storage call eventually completes or fails:
\* while some call waits on the network, some waiting call is eventually
\* continued; a call waiting on the document store is eventually continued.
\* The last two are weak fairness of SyncStored(a) and of ResolveStored
\* written out, these steps being enabled exactly when their call is at
\* "store".
AwaitsComplete ==
    /\ WF_vars(AwaitReturns)
    /\ \A a \in SyncSlots :
          []<>(syncCalls[a].pc # "store") \/ []<><<SyncStored(a)>>_vars
    /\ []<>(resolveCall.pc # "store") \/ []<><<ResolveStored>>_vars

\* The calls that raise an in-flight flag, with what makes their outcomes
\* differ: edits, uploads of other devices, and the conflict modal.
NextLive ==
    \/ \E newBlocks \in EditChoices : Edit(newBlocks)
    \/ \E fileId \in FileIds, text \in RemoteTexts : RemoteWrite(fileId, text)
    \/ \E text \in {conflict.local, conflict.remote} : ChooseResolved(text)
    \/ CloseConflict
    \/ \E isOnline, tokenExpired \in BOOLEAN : syncWithDropbox(isOnline, tokenExpired)
    \/ \E a \in SyncSlots : SyncTokenRefreshed(a)
    \/ \E a \in SyncSlots : SyncDownloaded(a)
    \/ \E a \in SyncSlots : SyncUploaded(a)
    \/ \E a \in SyncSlots : SyncStored(a)
    \/ \E tokenExpired \in BOOLEAN : resolveConflict(tokenExpired)
    \/ ResolveTokenRefreshed
    \/ ResolveUploaded
    \/ ResolveStored
    \/ \E tokenExpired \in BOOLEAN : pullFileCatalog(tokenExpired)
    \/ PullTokenRefreshed
    \/ PullCatalogSynced

SpecLive == Init /\ [][NextLive]_vars /\ AwaitsComplete

(***************************************************************************)
(* Connectivity.  App.tsx:658-667 copies navigator.onLine into the isOnline *)
(* state on every online and offline event and hands it to the hook.  The  *)
(* only effect of part_016 that depends on isOnline is refreshCatalog      *)
(* (1433-1457); the callbacks that read it are recreated.  React runs the  *)
(* effects of a render before it handles the next event, so every other    *)
(* step of this specification waits for EffectsSettled.                    *)
(***************************************************************************)
MaxToggles == 3

EffectsSettled == effectDeps = refreshCatalogDeps

\* App.tsx:659-661: refreshOnlineState.
SetOnline ==
    /\ EffectsSettled
    /\ onlineToggles < MaxToggles
    /\ onlineToggles' = onlineToggles + 1
    /\ navigatorOnLine' = ~navigatorOnLine
    /\ UNCHANGED <<effectDeps, catalogRefreshing, syncVars, pureVars>>

\* part_016:1433-1457: the effect runs after a render in which one of its
\* dependencies changed, and starts refreshCatalog when its guard holds.
refreshCatalogEffect ==
    /\ ~EffectsSettled
    /\ effectDeps' = refreshCatalogDeps
    /\ catalogRefreshing' = IF refreshCatalogGuard THEN catalogRefreshing + 1 ELSE catalogRefreshing
    /\ UNCHANGED <<navigatorOnLine, onlineToggles, syncVars, pureVars>>

\* part_016:1438-1453: refreshCatalog ends; it has stored a refreshed token
\* (1441-1447) or none, and has swallowed every failure (1450-1452).  The
\* catalog it merges is not part of this specification.
RefreshCatalogDone(tokenExpired) ==
    /\ EffectsSettled
    /\ catalogRefreshing > 0
    /\ catalogRefreshing' = catalogRefreshing - 1
    /\ IF tokenExpired /\ dropboxToken # NoToken /\ dropboxToken < MaxTokens
       THEN SetDropboxToken(dropboxToken + 1)
       ELSE UNCHANGED <<dropboxToken, storedToken>>
    /\ UNCHANGED <<navigatorOnLine, effectDeps, onlineToggles, pureVars, clock, remoteDocs,
                   storedDocs, activeFileId, blocks, docState, documentCache, syncNotice,
                   flagVars, conflict, autosavePending, callVars, lastReturn, editCount,
                   callCount, remoteWriteCount>>

InitOnline ==
    /\ InitSync
    /\ MergeIdle
    /\ navigatorOnLine \in BOOLEAN
    /\ effectDeps = refreshCatalogDeps
    /\ catalogRefreshing = 0
    /\ onlineToggles = 0
    /\ HunksIdle
    /\ CatalogIdle
    /\ TokenIdle
    /\ AuthIdle
    /\ WorkspaceIdle

NextOnline ==
    \/ SetOnline
    \/ refreshCatalogEffect
    \/ \E tokenExpired \in BOOLEAN : RefreshCatalogDone(tokenExpired)
    \/ EffectsSettled /\ disconnectDropbox
    \/ \E newBlocks \in EditChoices : EffectsSettled /\ Edit(newBlocks)
    \/ \E tokenExpired \in BOOLEAN : EffectsSettled /\ syncWithDropbox(navigatorOnLine, tokenExpired)
    \/ \E a \in SyncSlots : EffectsSettled /\ SyncTokenRefreshed(a)
    \/ \E a \in SyncSlots : EffectsSettled /\ SyncDownloaded(a)
    \/ \E a \in SyncSlots : EffectsSettled /\ SyncUploaded(a)
    \/ \E a \in SyncSlots : EffectsSettled /\ SyncStored(a)

SpecOnline == InitOnline /\ [][NextOnline]_vars

(***************************************************************************)
(* Specification of the merge as a state machine: the three texts are      *)
(* drawn from all texts of at most MaxLines lines over MergeLines, Merge   *)
(* applies threeWayMergeText, and Remerge feeds a clean result back in as  *)
(* base, local and remote.                                                 *)
(***************************************************************************)
MaxLines == 2

MergeLines == { <<>>, <<"A">>, <<"B">>, <<"A", " ">> }

SeqsUpTo(S, n) == UNION { [1..k -> S] : k \in 1..n }

MergeTexts == SeqsUpTo(MergeLines, MaxLines)

\* A second family of inputs: a four-line base and, on each side, every way of
\* keeping or replacing each of its lines in place.
WideBase == << <<"A">>, <<"B">>, <<"C">>, <<"D">> >>

WideReplacements == { <<"X">>, <<"Y">> }

WideEdits ==
    { [i \in 1..Len(WideBase) |-> IF pick[i] = <<>> THEN WideBase[i] ELSE pick[i]] :
        pick \in [1..Len(WideBase) -> WideReplacements \cup {<<>>}] }

\* A third family: on one side a line is inserted somewhere into the
\* four-line base, on the other its lines are kept or replaced in place.
WideInserts ==
    { SubSeq(WideBase, 1, k) \o << <<"Z">> >> \o SubSeq(WideBase, k + 1, Len(WideBase)) :
        k \in 0..Len(WideBase) }

InitMerge ==
    /\ \/ /\ baseText \in MergeTexts
          /\ localText \in MergeTexts
          /\ remoteText \in MergeTexts
       \/ /\ baseText = WideBase
          /\ localText \in WideEdits
          /\ remoteText \in WideEdits
       \/ /\ baseText = WideBase
          /\ \/ localText \in WideInserts /\ remoteText \in WideEdits
             \/ localText \in WideEdits /\ remoteText \in WideInserts
    /\ mergeResult = NoResult
    /\ remergeResult = NoResult
    /\ mergePc = "input"
    /\ InitSync
    /\ OnlineIdle
    /\ HunksIdle
    /\ CatalogIdle
    /\ TokenIdle
    /\ AuthIdle
    /\ WorkspaceIdle

Merge ==
    /\ mergePc = "input"
    /\ mergeResult' = threeWayMergeText(baseText, localText, remoteText)
    /\ mergePc' = "merged"
    /\ UNCHANGED <<baseText, localText, remoteText, remergeResult, exceptMergeVars>>

Remerge ==
    /\ mergePc = "merged"
    /\ mergeResult.status = "clean"
    /\ remergeResult' = threeWayMergeText(mergeResult.merged, mergeResult.merged, mergeResult.merged)
    /\ mergePc' = "remerged"
    /\ UNCHANGED <<baseText, localText, remoteText, mergeResult, exceptMergeVars>>

NextMerge == Merge \/ Remerge

SpecMerge == InitMerge /\ [][NextMerge]_vars

(***************************************************************************)
(* The conflict modal (ConflictModal.tsx:77-161).  buildDiffHunks,          *)
(* composeResolvedFromHunks and resolveLinesForChoice are imported from     *)
(* lib/merge but are not in the merge.ts of src/: they are written from    *)
(* section 4.3 of the specification, over the diffTokens of merge.ts.  A   *)
(* text is held as its lines, so splitting at "\n" and joining with "\n"   *)
(* are what the representation does.                                       *)
(***************************************************************************)
DiffChoices == {"incoming", "local", "both_incoming_first", "both_local_first"}

Unset == "unset"

Hunk(id, type, incomingLines, incomingStart, localLines, localStart) ==
    [id |-> id, type |-> type, incomingLines |-> incomingLines, incomingStart |-> incomingStart,
     localLines |-> localLines, localStart |-> localStart]

\* Consecutive insert and delete runs go into one change hunk, every equal
\* run into an equal hunk; the starts are 1-based line numbers.
RECURSIVE groupHunks(_, _, _, _, _)
groupHunks(ops, index, hunks, incomingCursor, localCursor) ==
    IF index > Len(ops) THEN hunks
    ELSE LET op == ops[index]
             n == Len(hunks)
             count == Len(op.items)
         IN IF op.type = "equal"
            THEN groupHunks(ops, index + 1,
                     Append(hunks, Hunk(n + 1, "equal", op.items, incomingCursor, op.items, localCursor)),
                     incomingCursor + count, localCursor + count)
            ELSE LET open == IF n > 0 /\ hunks[n].type = "change"
                             THEN hunks
                             ELSE Append(hunks, Hunk(n + 1, "change", <<>>, incomingCursor, <<>>, localCursor))
                     last == Len(open)
                 IN IF op.type = "delete"
                    THEN groupHunks(ops, index + 1,
                             [open EXCEPT ![last].incomingLines = @ \o op.items],
                             incomingCursor + count, localCursor)
                    ELSE groupHunks(ops, index + 1,
                             [open EXCEPT ![last].localLines = @ \o op.items],
                             incomingCursor, localCursor + count)

buildDiffHunks(remote, local) == groupHunks(diffTokens(remote, local), 1, <<>>, 1, 1)

resolveLinesForChoice(hunk, choice) ==
    CASE choice = "incoming" -> hunk.incomingLines
      [] choice = "both_incoming_first" -> hunk.incomingLines \o hunk.localLines
      [] choice = "both_local_first" -> hunk.localLines \o hunk.incomingLines
      [] OTHER -> hunk.localLines

RECURSIVE composeLines(_, _, _)
composeLines(hunks, choices, index) ==
    IF index > Len(hunks) THEN <<>>
    ELSE LET hunk == hunks[index]
             choice == IF index <= Len(choices) /\ choices[index] # Unset
                       THEN choices[index] ELSE "local"
         IN (IF hunk.type = "equal" THEN hunk.localLines ELSE resolveLinesForChoice(hunk, choice))
            \o composeLines(hunks, choices, index + 1)

composeResolvedFromHunks(hunks, choices) ==
    LET lines == composeLines(hunks, choices, 1)
    IN IF lines = <<>> THEN EmptyText ELSE lines

\* ConflictModal.tsx:22-27, over the change hunks (81-84).
makeChoiceMap(hunks, choice) ==
    [i \in 1..Len(hunks) |-> IF hunks[i].type = "change" THEN choice ELSE Unset]

hunks == buildDiffHunks(conflictRemote, conflictLocal)

\* The modal opens on a conflict: useState({}) (85) and the memo of 148-151.
InitHunks ==
    /\ conflictRemote \in MergeTexts
    /\ conflictLocal \in MergeTexts
    /\ hunkChoices = <<>>
    /\ resolvedMarkdown = composeResolvedFromHunks(hunks, <<>>)
    /\ InitSync
    /\ MergeIdle
    /\ OnlineIdle
    /\ CatalogIdle
    /\ TokenIdle
    /\ AuthIdle
    /\ WorkspaceIdle

\* setHunkChoices and the memo that follows it (148-151).
SetHunkChoices(choices) ==
    /\ choices # hunkChoices
    /\ hunkChoices' = choices
    /\ resolvedMarkdown' = composeResolvedFromHunks(hunks, choices)
    /\ UNCHANGED <<conflictRemote, conflictLocal, exceptHunkVars>>

\* The effect of 97-111, and the buttons "all from Dropbox" and "all local"
\* (185, 199).
ChooseAll(choice) == SetHunkChoices(makeChoiceMap(hunks, choice))

\* The buttons of one change hunk (229-270); a hunk with no entry reads as
\* local (213).
ChooseHunk(id, choice) ==
    /\ hunks[id].type = "change"
    /\ SetHunkChoices([i \in 1..Len(hunks) |->
            IF i = id THEN choice
            ELSE IF i <= Len(hunkChoices) THEN hunkChoices[i] ELSE Unset])

NextHunks ==
    \/ \E choice \in {"incoming", "local"} : ChooseAll(choice)
    \/ \E id \in 1..Len(hunks), choice \in DiffChoices : ChooseHunk(id, choice)

SpecHunks == InitHunks /\ [][NextHunks]_vars

(***************************************************************************)
(* The file catalog (part_016:72-214).  A file name is one of a few        *)
(* strings; sanitizeFileName and localeCompare are given on those.         *)
(***************************************************************************)
DEFAULT_FILE_NAME == "Untitled"

\* part_016:72-79: whitespace runs collapse to one blank, the ends are
\* trimmed, control characters go, and 80 characters are kept.
sanitizeFileName(value) ==
    CASE value = " b" -> "b"
      [] value = " " -> ""
      [] OTHER -> value

\* The order of name.localeCompare on the sanitized names (86).
NameRank(name) ==
    CASE name = "a" -> 1
      [] name = "b" -> 2
      [] OTHER -> 3

FileMeta(id, name, createdAt, updatedAt, renamedAt) ==
    [id |-> id, name |-> name, createdAt |-> createdAt, updatedAt |-> updatedAt,
     renamedAt |-> renamedAt]

Max2(a, b) == IF a >= b THEN a ELSE b

Min2(a, b) == IF a <= b THEN a ELSE b

\* Number.isFinite(x) && x > 0; a missing time is 0.
ValidTime(t) == t > 0

normalizeFileMeta(input, now) ==
    LET createdAt == IF ValidTime(input.createdAt) THEN input.createdAt ELSE now
        updatedAtCandidate == IF ValidTime(input.updatedAt) THEN input.updatedAt ELSE createdAt
        renamedAtCandidate == IF ValidTime(input.renamedAt) THEN input.renamedAt ELSE updatedAtCandidate
    IN FileMeta(input.id,
                IF sanitizeFileName(input.name) = "" THEN DEFAULT_FILE_NAME
                ELSE sanitizeFileName(input.name),
                createdAt,
                Max2(updatedAtCandidate, renamedAtCandidate),
                Max2(renamedAtCandidate, createdAt))

IndexOfId(files, id) ==
    IF \E i \in 1..Len(files) : files[i].id = id
    THEN CHOOSE i \in 1..Len(files) : files[i].id = id
    ELSE 0

\* Map.prototype.set: a new key goes last, a known key keeps its place.
MapSet(files, file) ==
    IF IndexOfId(files, file.id) = 0 THEN Append(files, file)
    ELSE [files EXCEPT ![IndexOfId(files, file.id)] = file]

\* Array.prototype.sort is stable: files[i] lands after every element of a
\* smaller key and after the earlier elements of the same key.  keys[i] is
\* the rank the comparator gives files[i].
StableSort(files, keys) ==
    LET place(i) == 1 + Cardinality({ j \in 1..Len(files) :
                                        \/ keys[j] < keys[i]
                                        \/ keys[j] = keys[i] /\ j < i })
    IN [p \in 1..Len(files) |-> files[CHOOSE i \in 1..Len(files) : place(i) = p]]

\* part_016:81-89: createdAt first, then name.localeCompare.
sortFiles(files) ==
    StableSort(files, [i \in 1..Len(files) |-> 4 * files[i].createdAt + NameRank(files[i].name)])

\* order.set(id, index) of 97-99: the last index of an id wins; 0 when absent.
OrderOf(preferredOrder, id) ==
    IF \E i \in 1..Len(preferredOrder) : preferredOrder[i] = id
    THEN CHOOSE i \in 1..Len(preferredOrder) :
            /\ preferredOrder[i] = id
            /\ \A j \in (i + 1)..Len(preferredOrder) : preferredOrder[j] # id
    ELSE 0

\* part_016:91-124
ensureUniqueNames(files, preferredOrder) ==
    LET source == StableSort(files,
                      [i \in 1..Len(files) |->
                          IF OrderOf(preferredOrder, files[i].id) # 0
                          THEN OrderOf(preferredOrder, files[i].id)
                          ELSE Len(preferredOrder) + 1])
    IN [i \in 1..Len(source) |->
            [source[i] EXCEPT !.name = IF sanitizeFileName(@) = "" THEN DEFAULT_FILE_NAME
                                       ELSE sanitizeFileName(@)]]

\* part_016:160-174: the loop of normalizeFiles.
RECURSIVE dedupe(_, _, _)
dedupe(files, now, deduped) ==
    IF files = <<>> THEN deduped
    ELSE LET file == Head(files)
             normalized == normalizeFileMeta(file, now)
             at == IndexOfId(deduped, normalized.id)
         IN IF file.id = ""
            THEN dedupe(Tail(files), now, deduped)
            ELSE IF \/ at = 0
                    \/ normalized.renamedAt > deduped[at].renamedAt
                    \/ /\ normalized.renamedAt = deduped[at].renamedAt
                       /\ normalized.updatedAt >= deduped[at].updatedAt
            THEN dedupe(Tail(files), now, MapSet(deduped, normalized))
            ELSE dedupe(Tail(files), now, deduped)

normalizeFiles(files, now) == ensureUniqueNames(sortFiles(dedupe(files, now, <<>>)), <<>>)

remoteRenameWins_later(remoteFile, current) == remoteFile.renamedAt > current.renamedAt

\* part_016:201
remoteRenameWins(remoteFile, current) == remoteFile.renamedAt >= current.renamedAt

\* part_016:193-210: the loop over the remote files.
RECURSIVE mergeRemoteFiles(_, _)
mergeRemoteFiles(remote, merged) ==
    IF remote = <<>> THEN merged
    ELSE LET remoteFile == Head(remote)
             at == IndexOfId(merged, remoteFile.id)
         IN IF at = 0
            THEN mergeRemoteFiles(Tail(remote), MapSet(merged, remoteFile))
            ELSE LET current == merged[at]
                 IN mergeRemoteFiles(Tail(remote), MapSet(merged,
                        FileMeta(current.id,
                                 IF remoteRenameWins(remoteFile, current) THEN remoteFile.name
                                 ELSE current.name,
                                 Min2(current.createdAt, remoteFile.createdAt),
                                 Max2(current.updatedAt, remoteFile.updatedAt),
                                 Max2(current.renamedAt, remoteFile.renamedAt))))

mergeFileCatalogs_localOnly(localList, remoteList, now) == normalizeFiles(localList, now)

mergeFileCatalogs(localList, remoteList, now) ==
    LET local == normalizeFiles(localList, now)
        remote == normalizeFiles(remoteList, now)
        preferredOrder == [i \in 1..Len(local) |-> local[i].id] \o [i \in 1..Len(remote) |-> remote[i].id]
    IN ensureUniqueNames(sortFiles(mergeRemoteFiles(remote, local)), preferredOrder)

(***************************************************************************)
(* Specification of the catalog merge: the two lists are what              *)
(* normalizeFiles makes of the stored and of the downloaded list (297,     *)
(* 426, 1308), which may repeat an id and hold unsanitized names; the      *)
(* times are those the hook writes, createdAt <= renamedAt <= updatedAt    *)
(* (751-753, 798).                                                         *)
(***************************************************************************)
MaxFiles == 2

MaxTime == 2

CatalogIds == {"f1", "f2", "f3"}

RawNames == {"a", " b"}

RawFileMetas ==
    { FileMeta(id, name, t[1], t[3], t[2]) :
        id \in CatalogIds, name \in RawNames,
        t \in { t \in (1..MaxTime) \X (1..MaxTime) \X (1..MaxTime) : t[1] <= t[2] /\ t[2] <= t[3] } }

RawCatalogs == {<<>>} \cup UNION { [1..k -> RawFileMetas] : k \in 1..MaxFiles }

Catalogs == { normalizeFiles(raw, MaxTime + 1) : raw \in RawCatalogs }

InitCatalog ==
    /\ localFiles \in Catalogs
    /\ remoteFiles \in Catalogs
    /\ mergedFiles = <<>>
    /\ catalogPc = "input"
    /\ InitSync
    /\ MergeIdle
    /\ OnlineIdle
    /\ HunksIdle
    /\ TokenIdle
    /\ AuthIdle
    /\ WorkspaceIdle

\* part_016:583
MergeCatalogs ==
    /\ catalogPc = "input"
    /\ mergedFiles' = mergeFileCatalogs(localFiles, remoteFiles, MaxTime + 1)
    /\ catalogPc' = "merged"
    /\ UNCHANGED <<localFiles, remoteFiles, exceptCatalogVars>>

NextCatalog == MergeCatalogs

SpecCatalog == InitCatalog /\ [][NextCatalog]_vars

(***************************************************************************)
(* Token refresh (main.tsx:116-148, 201-212).  Times are in units of 30    *)
(* seconds; an optional field that is missing is Undefined.  A token that  *)
(* a call may hold is a one-element sequence, no token the empty one.      *)
(***************************************************************************)
Undefined == "undefined"

oneMinute == 2

DropboxTokenState(accessToken, refreshToken, expiresAt, accountId) ==
    [accessToken |-> accessToken, refreshToken |-> refreshToken,
     expiresAt |-> expiresAt, accountId |-> accountId]

tokenIsFresh_untilExpiry(now, token) == now < token.expiresAt

\* main.tsx:207
tokenIsFresh(now, token) == now < token.expiresAt - oneMinute

\* main.tsx:142-147, with Date.now() = now when the response is read.
refreshedToken(token, payload, now) ==
    [token EXCEPT !.accessToken = payload.access_token,
                  !.expiresAt = now + payload.expires_in,
                  !.accountId = IF payload.account_id # Undefined THEN payload.account_id
                                ELSE token.accountId]

MaxNow == 3

TokenArgs ==
    { DropboxTokenState("at1", "rt1", expiresAt, accountId) :
        expiresAt \in 0..(MaxNow + oneMinute), accountId \in {Undefined, "acct1"} }

\* What the token endpoint may answer to a refresh_token grant: the fields
\* the code reads, and a refresh_token (a server that rotates them, RFC 6749
\* section 6).
RefreshPayloads ==
    [access_token : {"at2"}, expires_in : {1, 4}, account_id : {Undefined, "acct2"},
     refresh_token : {Undefined, "rt2"}]

InitToken ==
    /\ dateNow \in 0..MaxNow
    /\ tokenArg \in { <<token>> : token \in TokenArgs }
    /\ tokenPayload = <<>>
    /\ tokenResult = <<>>
    /\ tokenRequests = 0
    /\ tokenPc = "input"
    /\ InitSync
    /\ MergeIdle
    /\ OnlineIdle
    /\ HunksIdle
    /\ CatalogIdle
    /\ AuthIdle
    /\ WorkspaceIdle

\* main.tsx:201-212 up to the fetch of refreshAccessToken (123)
ensureValidDropboxToken ==
    /\ tokenPc = "input"
    /\ IF tokenIsFresh(dateNow, tokenArg[1])
       THEN /\ tokenResult' = tokenArg
            /\ tokenPc' = "returned"
            /\ UNCHANGED tokenRequests
       ELSE /\ tokenRequests' = tokenRequests + 1
            /\ tokenPc' = "refreshing"
            /\ UNCHANGED tokenResult
    /\ UNCHANGED <<dateNow, tokenArg, tokenPayload, exceptTokenVars>>

\* main.tsx:131-147: the response arrives after elapsed units of time.
RefreshResponded(ok, payload, elapsed) ==
    /\ tokenPc = "refreshing"
    /\ dateNow' = dateNow + elapsed
    /\ IF ok
       THEN /\ tokenPayload' = <<payload>>
            /\ tokenResult' = <<refreshedToken(tokenArg[1], payload, dateNow')>>
            /\ tokenPc' = "refreshed"
       ELSE /\ tokenPc' = "threw"
            /\ UNCHANGED <<tokenPayload, tokenResult>>
    /\ UNCHANGED <<tokenArg, tokenRequests, exceptTokenVars>>

NextToken ==
    \/ ensureValidDropboxToken
    \/ \E ok \in BOOLEAN, payload \in RefreshPayloads, elapsed \in 0..1 :
         RefreshResponded(ok, payload, elapsed)

SpecToken == InitToken /\ [][NextToken]_vars

(***************************************************************************)
(* The OAuth callback (main.tsx:71-114, 150-199; part_016:1352-1372,       *)
(* 1430).  A missing query parameter or storage item and an empty one are  *)
(* both "": the code tests them with ! and !==, which treat them alike     *)
(* against a stored state that is never empty.  hookToken is the hook's    *)
(* dropboxToken, which the effect at 1430 stores.                          *)
(***************************************************************************)
StateMismatchNotice == "Dropbox OAuth state mismatch. Please try connecting again."

NoRefreshTokenNotice == "Dropbox did not return a refresh token. Verify offline access is enabled."

ExchangeFailedNotice == "Dropbox token exchange failed"

ConnectedNotice == "Dropbox connected."

stateMismatch_onlyWhenReturned(expectedState, verifier, state) ==
    state # "" /\ state # expectedState

\* main.tsx:186
stateMismatch(expectedState, verifier, state) ==
    expectedState = "" \/ verifier = "" \/ state # expectedState

\* main.tsx:102-113
exchangedToken(payload, now) ==
    DropboxTokenState(payload.access_token, payload.refresh_token,
                      now + payload.expires_in, payload.account_id)

MaxExchanges == 2

\* What the token endpoint may answer to an authorization_code grant.
ExchangePayloads ==
    [access_token : {"at2"}, refresh_token : {Undefined, "", "rt2"}, expires_in : {4},
     account_id : {Undefined, "acct2"}]

InitAuth ==
    /\ locationCode = ""
    /\ locationState = ""
    /\ sessionState = ""
    /\ sessionVerifier = ""
    /\ exchangeRequests = 0
    /\ exchangePayload = <<>>
    /\ oauthToken = <<>>
    /\ hookToken \in {<<>>, <<DropboxTokenState("at1", "rt1", 4, "acct1")>>}
    /\ authNotice = ""
    /\ authPc = "idle"
    /\ InitSync
    /\ MergeIdle
    /\ OnlineIdle
    /\ HunksIdle
    /\ CatalogIdle
    /\ TokenIdle
    /\ WorkspaceIdle

AuthAtRest == authPc \in {"idle", "redirected", "returned", "threw", "connected"}

\* main.tsx:150-169: the state and the verifier are stored and the browser
\* leaves for the authorization page.
startDropboxAuth ==
    /\ AuthAtRest
    /\ exchangeRequests < MaxExchanges
    /\ sessionState' = "s1"
    /\ sessionVerifier' = "v1"
    /\ authPc' = "redirected"
    /\ UNCHANGED <<locationCode, locationState, exchangeRequests, exchangePayload, oauthToken,
                   hookToken, authNotice, exceptAuthVars>>

\* The page is loaded at a URL with these query parameters: the redirect of
\* the authorization server, or any link to the application.  The hook
\* starts with the stored token (part_016:1352-1355).
PageLoad(code, state) ==
    /\ AuthAtRest
    /\ exchangeRequests < MaxExchanges
    /\ locationCode' = code
    /\ locationState' = state
    /\ exchangePayload' = <<>>
    /\ oauthToken' = <<>>
    /\ authNotice' = ""
    /\ authPc' = "bootstrap"
    /\ UNCHANGED <<sessionState, sessionVerifier, exchangeRequests, hookToken, exceptAuthVars>>

\* main.tsx:171-188 up to the fetch of exchangeCodeForToken (84), with the
\* catch of part_016:1366-1371.
finishDropboxAuthIfNeeded(cancelled) ==
    /\ authPc = "bootstrap"
    /\ IF locationCode = ""
       THEN /\ authPc' = "returned"
            /\ UNCHANGED <<exchangeRequests, authNotice>>
       ELSE IF stateMismatch(sessionState, sessionVerifier, locationState)
       THEN /\ authPc' = "threw"
            /\ authNotice' = IF cancelled THEN authNotice ELSE StateMismatchNotice
            /\ UNCHANGED exchangeRequests
       ELSE /\ authPc' = "exchanging"
            /\ exchangeRequests' = exchangeRequests + 1
            /\ UNCHANGED authNotice
    /\ UNCHANGED <<locationCode, locationState, sessionState, sessionVerifier, exchangePayload,
                   oauthToken, hookToken, exceptAuthVars>>

\* main.tsx:92-113 and 190-198, then part_016:1361-1371.
ExchangeResponded(ok, payload, cancelled) ==
    /\ authPc = "exchanging"
    /\ exchangePayload' = IF ok THEN <<payload>> ELSE <<>>
    /\ IF ~ok
       THEN /\ authPc' = "threw"
            /\ authNotice' = IF cancelled THEN authNotice ELSE ExchangeFailedNotice
            /\ UNCHANGED <<locationCode, locationState, sessionState, sessionVerifier,
                           oauthToken, hookToken>>
       ELSE IF payload.refresh_token \in {Undefined, ""}
       THEN /\ authPc' = "threw"
            /\ authNotice' = IF cancelled THEN authNotice ELSE NoRefreshTokenNotice
            /\ UNCHANGED <<locationCode, locationState, sessionState, sessionVerifier,
                           oauthToken, hookToken>>
       ELSE /\ oauthToken' = <<exchangedToken(payload, dateNow)>>
            /\ sessionState' = ""
            /\ sessionVerifier' = ""
            /\ locationCode' = ""
            /\ locationState' = ""
            /\ hookToken' = IF cancelled THEN hookToken ELSE oauthToken'
            /\ authNotice' = IF cancelled THEN authNotice ELSE ConnectedNotice
            /\ authPc' = "connected"
    /\ UNCHANGED <<exchangeRequests, exceptAuthVars>>

NextAuth ==
    \/ startDropboxAuth
    \/ \E code \in {"", "c1"}, state \in {"", "s1", "s2"} : PageLoad(code, state)
    \/ \E cancelled \in BOOLEAN : finishDropboxAuthIfNeeded(cancelled)
    \/ \E ok \in BOOLEAN, payload \in ExchangePayloads, cancelled \in BOOLEAN :
         ExchangeResponded(ok, payload, cancelled)

SpecAuth == InitAuth /\ [][NextAuth]_vars

(***************************************************************************)
(* The guards of syncWithDropbox (part_016:944-976) over every value the   *)
(* callback can read.  In Spec the application key is configured and the   *)
(* active file is always in the catalog, so only the first, third and      *)
(* fourth guard are met there; here the active id may also be null (its    *)
(* value until the bootstrap sets it, part_016:360) or missing from the    *)
(* catalog.  localFiles is the hook's catalog, filesRef.current.           *)
(***************************************************************************)
NoActiveFile == "none"

NoAppKeyNotice == "Add VITE_DROPBOX_APP_KEY before connecting Dropbox."

ConnectFirstNotice == "Connect Dropbox first."

OfflineNotice == "Offline. Changes stay in IndexedDB until reconnect."

NoManuscriptNotice == "Create a manuscript first."

NotFoundNotice == "Current manuscript was not found."

Passes == "passes"

syncRefusal_skipsCatalog(appKeySet, token, isOnline, currentActiveId, files) ==
    IF token = NoToken THEN ConnectFirstNotice
    ELSE IF ~isOnline THEN OfflineNotice
    ELSE Passes

\* part_016:949-974: the notice of the first guard that refuses, or Passes.
syncRefusal(appKeySet, token, isOnline, currentActiveId, files) ==
    IF ~appKeySet THEN NoAppKeyNotice
    ELSE IF token = NoToken THEN ConnectFirstNotice
    ELSE IF ~isOnline THEN OfflineNotice
    ELSE IF currentActiveId = NoActiveFile THEN NoManuscriptNotice
    ELSE IF \A i \in 1..Len(files) : files[i].id # currentActiveId THEN NotFoundNotice
    ELSE Passes

GuardCatalogs ==
    { <<>>, <<FileMeta("f1", "a", 1, 1, 1)>>,
      <<FileMeta("f1", "a", 1, 1, 1), FileMeta("f2", "b", 1, 1, 1)>> }

InitGuards ==
    /\ clock = 0
    /\ remoteDocs = [f \in FileIds |-> NoRemoteFile]
    /\ storedDocs = [f \in FileIds |-> IF f = "f1" THEN createEmptyStoredDocument ELSE NoDocument]
    /\ storedToken \in {NoToken, 1}
    /\ dropboxToken = storedToken
    /\ activeFileId \in FileIds \cup {NoActiveFile}
    /\ localFiles \in GuardCatalogs
    /\ blocks \in EditChoices
    /\ baseMarkdown = EmptyText
    /\ remoteRev = Null
    /\ lastSyncedAt = Null
    /\ documentCache = [f \in FileIds |-> IF f = "f1" THEN createEmptyStoredDocument ELSE NoDocument]
    /\ syncNotice = "Offline-first mode active."
    /\ isSyncing = FALSE
    /\ isPulling \in BOOLEAN
    /\ conflict = NoConflict
    /\ autosavePending = FALSE
    /\ syncCalls = [a \in SyncSlots |-> IdleSync]
    /\ resolveCall = IdleResolve
    /\ selectCall = IdleSelect
    /\ pullCall = IdlePull
    /\ lastReturn = "none"
    /\ editCount = 0
    /\ callCount = 0
    /\ remoteWriteCount = 0
    /\ navigatorOnLine \in BOOLEAN
    /\ effectDeps = refreshCatalogDeps
    /\ catalogRefreshing = 0
    /\ onlineToggles = 0
    /\ remoteFiles = <<>>
    /\ mergedFiles = <<>>
    /\ catalogPc = "off"
    /\ MergeIdle
    /\ HunksIdle
    /\ TokenIdle
    /\ AuthIdle
    /\ WorkspaceIdle

\* part_016:944-978, up to the first await.
syncWithDropboxGuarded(appKeySet, tokenExpired) ==
    /\ lastReturn = "none"
    /\ LET refusal == syncRefusal(appKeySet, dropboxToken, navigatorOnLine, activeFileId, localFiles)
       IN IF syncInFlightGuard
          THEN /\ lastReturn' = "rejected"
               /\ UNCHANGED <<syncNotice, isSyncing, syncCalls>>
          ELSE IF refusal # Passes
          THEN /\ lastReturn' = "refused"
               /\ syncNotice' = refusal
               /\ UNCHANGED <<isSyncing, syncCalls>>
          ELSE /\ lastReturn' = "started"
               /\ isSyncing' = TRUE
               /\ syncCalls' = [syncCalls EXCEPT ![1] =
                      [IdleSync EXCEPT !.pc = IF tokenExpired THEN "token" ELSE "download",
                                       !.fileId = activeFileId,
                                       !.blocks = blocks,
                                       !.baseMarkdown = baseMarkdown,
                                       !.remoteRev = remoteRev,
                                       !.lastSyncedAt = lastSyncedAt]]
               /\ UNCHANGED syncNotice
    /\ UNCHANGED <<envVars, storedDocs, storedToken, activeFileId, docState, documentCache,
                   dropboxToken, isPulling, conflict, autosavePending, resolveCall, selectCall,
                   pullCall, editCount, callCount, remoteWriteCount, otherVars>>

NextGuards == \E appKeySet, tokenExpired \in BOOLEAN : syncWithDropboxGuarded(appKeySet, tokenExpired)

SpecGuards == InitGuards /\ [][NextGuards]_vars

(***************************************************************************)
(* The workspace (part_016:243-256, 400-920, 1297-1457): the file catalog, *)
(* the active file, the Dropbox index file, and the asynchronous calls     *)
(* that change them.  A catalog refresh is the refreshCatalog effect       *)
(* (1433-1457), which raises neither isSyncing nor isPulling; its steps    *)
(* are the points where it awaits the network.  createFile and             *)
(* renameActiveFile touch the catalog in one synchronous stretch;          *)
(* deleteActiveFile and selectFile await before they write.                *)
(***************************************************************************)
DEFAULT_FIRST_FILE_NAME == "Manuscript"

\* User actions (create, rename, delete, select) in one run.
MaxUserActions == 2

MaxRefreshes == 1

\* createFileId() never repeats an id.
FreshIds == <<"f3", "f4", "f5", "f6">>

WorkspaceIds == {"f1", "f2", "f3", "f4", "f5", "f6"}

NoIndex == [exists |-> FALSE, files |-> <<>>]

IdleRefresh ==
    [pc |-> "idle", localFilesSnapshot |-> <<>>, localFilesForMerge |-> <<>>,
     remoteFiles |-> <<>>, mergedFiles |-> <<>>, uploads |-> FALSE]

IdleDelete == [pc |-> "idle", currentActiveId |-> "", currentFiles |-> <<>>]

\* part_016:126-132
makeUniqueFileName(desiredName) ==
    IF sanitizeFileName(desiredName) = "" THEN DEFAULT_FILE_NAME
    ELSE sanitizeFileName(desiredName)

\* part_016:216-241
areFileListsEqual(left, right) == left = right

\* part_016:243-256
resolveActiveFileId(desired, files) ==
    IF files = <<>> THEN NoActiveFile
    ELSE IF desired # NoActiveFile /\ IndexOfId(files, desired) # 0 THEN desired
    ELSE files[1].id

shouldDropBootstrapPlaceholderFile_byNameOnly(localFile, documentSnapshot) ==
    localFile.name = DEFAULT_FIRST_FILE_NAME

\* part_016:480-499
shouldDropBootstrapPlaceholderFile(localFile, documentSnapshot) ==
    IF localFile.name # DEFAULT_FIRST_FILE_NAME THEN FALSE
    ELSE IF ~documentSnapshot.exists THEN TRUE
    ELSE /\ ~hasMeaningfulBlocksContent(documentSnapshot.blocks)
         /\ documentSnapshot.lastSyncedAt = Null
         /\ documentSnapshot.remoteRev = Null
         /\ Trim(documentSnapshot.baseMarkdown) = EmptyText

\* part_016:501-522
resolveLocalFilesForMerge(files, remote, docs) ==
    IF /\ Len(files) = 1
       /\ Len(remote) > 0
       /\ IndexOfId(remote, files[1].id) = 0
       /\ shouldDropBootstrapPlaceholderFile(files[1], docs[files[1].id])
    THEN <<>>
    ELSE files

\* Array.prototype.filter on the id.
WithoutId(files, id) == SelectSeq(files, LAMBDA file : file.id # id)

\* part_016:524-546: the document tryLoadDropboxDocument stores for a file
\* it found in Dropbox.
HydratedDocument(now) == StoredDocument(DocB, now, serializeBlocksToMarkdown(DocB), 1)

\* getOrCreateLocalDocument (444-462) over the cache and the store together.
WithLocalDocument(docs, fileId) ==
    IF fileId = NoActiveFile \/ docs[fileId].exists THEN docs
    ELSE [docs EXCEPT ![fileId] = createEmptyStoredDocument]

\* part_016:408-415
writeWorkspace(nextFiles, nextActiveFileId, now) ==
    [files |-> normalizeFiles(nextFiles, now),
     activeFileId |-> resolveActiveFileId(nextActiveFileId, nextFiles)]

FreshId == FreshIds[workspaceOps.ids + 1]

\* part_016:742-777
createFile(name) ==
    /\ workspaceOps.actions < MaxUserActions
    /\ LET now == workspaceNow + 1
           fileId == FreshId
           nextFile == FileMeta(fileId, makeUniqueFileName(name), now, now, now)
           nextFiles == sortFiles(Append(filesRef, nextFile))
       IN /\ workspaceNow' = now
          /\ workspaceDocs' = [workspaceDocs EXCEPT ![fileId] = createEmptyStoredDocument]
          /\ filesRef' = nextFiles
          /\ activeFileIdRef' = fileId
          /\ storedWorkspace' = [files |-> nextFiles, activeFileId |-> fileId]
    /\ workspaceOps' = [workspaceOps EXCEPT !.actions = @ + 1, !.ids = @ + 1]
    /\ UNCHANGED <<remoteCatalogFile, refreshCall, deleteCall, selectTargets, exceptWorkspaceVars>>

\* part_016:779-808
renameActiveFile(name) ==
    /\ workspaceOps.actions < MaxUserActions
    /\ activeFileIdRef # NoActiveFile
    /\ IndexOfId(filesRef, activeFileIdRef) # 0
    /\ makeUniqueFileName(name) # filesRef[IndexOfId(filesRef, activeFileIdRef)].name
    /\ LET now == workspaceNow + 1
           nextFiles == [i \in 1..Len(filesRef) |->
                            IF filesRef[i].id = activeFileIdRef
                            THEN [filesRef[i] EXCEPT !.name = makeUniqueFileName(name),
                                                     !.updatedAt = now, !.renamedAt = now]
                            ELSE filesRef[i]]
       IN /\ workspaceNow' = now
          /\ filesRef' = nextFiles
          /\ storedWorkspace' = writeWorkspace(nextFiles, activeFileIdRef, now)
    /\ workspaceOps' = [workspaceOps EXCEPT !.actions = @ + 1]
    /\ UNCHANGED <<activeFileIdRef, workspaceDocs, remoteCatalogFile, refreshCall, deleteCall,
                   selectTargets, exceptWorkspaceVars>>

\* part_016:810-824: deleteActiveFile up to its first await.  The delete
\* dialog is modal, so one call is in flight at a time.
deleteActiveFile(canDeleteInDropbox) ==
    /\ workspaceOps.actions < MaxUserActions
    /\ deleteCall.pc = "idle"
    /\ activeFileIdRef # NoActiveFile
    /\ IndexOfId(filesRef, activeFileIdRef) # 0
    /\ deleteCall' = [pc |-> IF canDeleteInDropbox THEN "dropbox" ELSE "store",
                      currentActiveId |-> activeFileIdRef, currentFiles |-> filesRef]
    /\ workspaceOps' = [workspaceOps EXCEPT !.actions = @ + 1]
    /\ UNCHANGED <<filesRef, activeFileIdRef, storedWorkspace, workspaceDocs, remoteCatalogFile,
                   refreshCall, selectTargets, workspaceNow, exceptWorkspaceVars>>

\* part_016:826-848: the file and its index entry are deleted in Dropbox.
DeleteInDropboxDone ==
    /\ deleteCall.pc = "dropbox"
    /\ remoteCatalogFile' = [exists |-> TRUE,
                       files |-> normalizeFiles(WithoutId(remoteCatalogFile.files, deleteCall.currentActiveId),
                                                workspaceNow)]
    /\ deleteCall' = [deleteCall EXCEPT !.pc = "store"]
    /\ UNCHANGED <<filesRef, activeFileIdRef, storedWorkspace, workspaceDocs, refreshCall,
                   selectTargets, workspaceNow, workspaceOps, exceptWorkspaceVars>>

\* part_016:849-862: a Dropbox request threw; the call returns false.
DeleteInDropboxFailed ==
    /\ deleteCall.pc = "dropbox"
    /\ deleteCall' = IdleDelete
    /\ UNCHANGED <<filesRef, activeFileIdRef, storedWorkspace, workspaceDocs, remoteCatalogFile,
                   refreshCall, selectTargets, workspaceNow, workspaceOps, exceptWorkspaceVars>>

\* part_016:864-920: after deleteStoredDocument, the catalog read before the
\* awaits, less the deleted file, is installed.
DeleteStored ==
    /\ deleteCall.pc = "store"
    /\ LET currentActiveId == deleteCall.currentActiveId
           currentFiles == deleteCall.currentFiles
           currentFileIndex == IndexOfId(currentFiles, currentActiveId)
           nextFilesWithoutCurrent == WithoutId(currentFiles, currentActiveId)
           now == workspaceNow + 1
           firstFileId == FreshId
           cleared == [workspaceDocs EXCEPT ![currentActiveId] = NoDocument]
       IN IF nextFilesWithoutCurrent = <<>>
          THEN /\ workspaceNow' = now
               /\ workspaceOps' = [workspaceOps EXCEPT !.ids = @ + 1]
               /\ workspaceDocs' = [cleared EXCEPT ![firstFileId] = createEmptyStoredDocument]
               /\ filesRef' = <<FileMeta(firstFileId, DEFAULT_FIRST_FILE_NAME, now, now, now)>>
               /\ activeFileIdRef' = firstFileId
               /\ storedWorkspace' = [files |-> filesRef', activeFileId |-> firstFileId]
          ELSE LET fallbackIndex == Min2(currentFileIndex, Len(nextFilesWithoutCurrent))
                   nextActiveId == nextFilesWithoutCurrent[fallbackIndex].id
               IN /\ workspaceDocs' = WithLocalDocument(cleared, nextActiveId)
                  /\ filesRef' = nextFilesWithoutCurrent
                  /\ activeFileIdRef' = nextActiveId
                  /\ storedWorkspace' = [files |-> nextFilesWithoutCurrent,
                                         activeFileId |-> nextActiveId]
                  /\ UNCHANGED <<workspaceNow, workspaceOps>>
    /\ deleteCall' = IdleDelete
    /\ UNCHANGED <<remoteCatalogFile, refreshCall, selectTargets, exceptWorkspaceVars>>

\* part_016:691-700: selectFile up to its first await.
selectFileStarts(fileId) ==
    /\ workspaceOps.actions < MaxUserActions
    /\ fileId # activeFileIdRef
    /\ IndexOfId(filesRef, fileId) # 0
    /\ selectTargets' = Append(selectTargets, fileId)
    /\ workspaceOps' = [workspaceOps EXCEPT !.actions = @ + 1]
    /\ UNCHANGED <<filesRef, activeFileIdRef, storedWorkspace, workspaceDocs, remoteCatalogFile,
                   refreshCall, deleteCall, workspaceNow, exceptWorkspaceVars>>

\* part_016:700-740 and the effect of 1415-1424: the awaited document is
\* there (read, downloaded or created) and the file becomes the active one.
SelectFileLands(i, downloaded) ==
    /\ i \in 1..Len(selectTargets)
    /\ LET fileId == selectTargets[i]
       IN /\ workspaceDocs' =
                IF workspaceDocs[fileId].exists THEN workspaceDocs
                ELSE [workspaceDocs EXCEPT ![fileId] =
                         IF downloaded THEN HydratedDocument(workspaceNow)
                         ELSE createEmptyStoredDocument]
          /\ activeFileIdRef' = fileId
          /\ storedWorkspace' = [files |-> filesRef, activeFileId |-> fileId]
    /\ selectTargets' = [j \in 1..(Len(selectTargets) - 1) |->
                            IF j < i THEN selectTargets[j] ELSE selectTargets[j + 1]]
    /\ UNCHANGED <<filesRef, remoteCatalogFile, refreshCall, deleteCall, workspaceNow, workspaceOps,
                   exceptWorkspaceVars>>

\* part_016:417-436 with the effects of 1261-1283 and 1415-1424 that follow
\* the state change: the catalog is normalized, the active file is resolved
\* against it, its document is loaded or created, the workspace is stored.
setFilesAndPersist(nextRaw, docs) ==
    LET next == normalizeFiles(nextRaw, workspaceNow)
        resolvedActive == resolveActiveFileId(activeFileIdRef, next)
    IN /\ filesRef' = next
       /\ activeFileIdRef' = resolvedActive
       /\ storedWorkspace' = writeWorkspace(next, resolvedActive, workspaceNow)
       /\ workspaceDocs' = WithLocalDocument(docs, resolvedActive)

\* part_016:1433-1457 and 571: the effect calls syncFileCatalogWithDropbox,
\* which notes the catalog and asks Dropbox for the index file.
refreshCatalog ==
    /\ workspaceOps.refreshes < MaxRefreshes
    /\ refreshCall.pc = "idle"
    /\ refreshCall' = [IdleRefresh EXCEPT !.pc = "download", !.localFilesSnapshot = filesRef]
    /\ workspaceOps' = [workspaceOps EXCEPT !.refreshes = @ + 1]
    /\ UNCHANGED <<filesRef, activeFileIdRef, storedWorkspace, workspaceDocs, remoteCatalogFile,
                   deleteCall, selectTargets, workspaceNow, exceptWorkspaceVars>>

\* part_016:572-598: the index arrived; the local list is chosen (rebased on
\* the current catalog when that changed meanwhile) and merged with it.  When
\* nothing is to upload, to hydrate or to look up, the result is installed
\* at once (680-682).
RefreshDownloaded ==
    /\ refreshCall.pc = "download"
    /\ LET remote == IF remoteCatalogFile.exists THEN normalizeFiles(remoteCatalogFile.files, workspaceNow)
                     ELSE <<>>
           localFilesForMerge ==
               IF ~areFileListsEqual(refreshCall.localFilesSnapshot, filesRef)
               THEN resolveLocalFilesForMerge(filesRef, remote, workspaceDocs)
               ELSE resolveLocalFilesForMerge(refreshCall.localFilesSnapshot, remote, workspaceDocs)
           merged == mergeFileCatalogs(localFilesForMerge, remote, workspaceNow)
           uploads == ~remoteCatalogFile.exists
                      \/ normalizeFiles(remoteCatalogFile.files, workspaceNow)
                            # normalizeFiles(merged, workspaceNow)
       IN IF uploads \/ remote # <<>>
          THEN /\ refreshCall' = [refreshCall EXCEPT !.pc = "network",
                                                     !.localFilesForMerge = localFilesForMerge,
                                                     !.remoteFiles = remote,
                                                     !.mergedFiles = merged,
                                                     !.uploads = uploads]
               /\ UNCHANGED <<filesRef, activeFileIdRef, storedWorkspace, workspaceDocs>>
          ELSE /\ refreshCall' = IdleRefresh
               /\ IF ~areFileListsEqual(merged, filesRef)
                  THEN setFilesAndPersist(merged, workspaceDocs)
                  ELSE UNCHANGED <<filesRef, activeFileIdRef, storedWorkspace, workspaceDocs>>
    /\ UNCHANGED <<remoteCatalogFile, deleteCall, selectTargets, workspaceNow, workspaceOps,
                   exceptWorkspaceVars>>

\* part_016:593-682: the index was uploaded when it was missing or differed,
\* the remote-only files were hydrated (or not: a failure is skipped), the
\* metadata of the shared files arrived; the merged catalog computed before
\* these awaits is installed when it differs from the current one.
RefreshInstalled(hydrated) ==
    /\ refreshCall.pc = "network"
    /\ LET merged == refreshCall.mergedFiles
           remoteOnly == { refreshCall.remoteFiles[i].id : i \in
                             { i \in 1..Len(refreshCall.remoteFiles) :
                                 IndexOfId(refreshCall.localFilesForMerge,
                                           refreshCall.remoteFiles[i].id) = 0 } }
           docs == [f \in WorkspaceIds |->
                       IF hydrated /\ f \in remoteOnly THEN HydratedDocument(workspaceNow)
                       ELSE workspaceDocs[f]]
       IN /\ remoteCatalogFile' = IF refreshCall.uploads
                            THEN [exists |-> TRUE, files |-> normalizeFiles(merged, workspaceNow)]
                            ELSE remoteCatalogFile
          /\ IF ~areFileListsEqual(merged, filesRef)
             THEN setFilesAndPersist(merged, docs)
             ELSE /\ workspaceDocs' = docs
                  /\ UNCHANGED <<filesRef, activeFileIdRef, storedWorkspace>>
    /\ refreshCall' = IdleRefresh
    /\ UNCHANGED <<deleteCall, selectTargets, workspaceNow, workspaceOps, exceptWorkspaceVars>>

\* part_016:1450-1452: a Dropbox request threw; the effect ignores it.
RefreshFailed ==
    /\ refreshCall.pc \in {"download", "network"}
    /\ refreshCall' = IdleRefresh
    /\ UNCHANGED <<filesRef, activeFileIdRef, storedWorkspace, workspaceDocs, remoteCatalogFile,
                   deleteCall, selectTargets, workspaceNow, workspaceOps, exceptWorkspaceVars>>

\* After bootstrap (1297-1341): the stored catalog, or the first file
\* "Manuscript"; the active file has a document.  Dropbox holds no index, or
\* the index another device wrote.
LocalCatalogs ==
    { <<FileMeta("f1", DEFAULT_FIRST_FILE_NAME, 1, 1, 1)>>,
      <<FileMeta("f1", "a", 1, 1, 1)>>,
      <<FileMeta("f1", "a", 1, 1, 1), FileMeta("f2", "b", 1, 1, 1)>> }

RemoteIndexes ==
    { NoIndex,
      [exists |-> TRUE, files |-> <<FileMeta("f2", "b", 1, 1, 1)>>],
      [exists |-> TRUE, files |-> <<FileMeta("f1", "b", 1, 2, 2), FileMeta("f2", "b", 1, 1, 1)>>] }

\* The document of the first file: untouched, written in, or synced before.
ActiveDocuments ==
    { createEmptyStoredDocument,
      StoredDocument(DocA, Null, EmptyText, Null),
      StoredDocument(EmptyBlocks, 1, EmptyText, 1) }

InitialWorkspaces ==
    { w \in LocalCatalogs \X ActiveDocuments :
        w[1][1].name # DEFAULT_FIRST_FILE_NAME => w[2] = createEmptyStoredDocument }

InitWorkspace ==
    /\ \E w \in InitialWorkspaces :
          /\ filesRef = w[1]
          /\ workspaceDocs = [f \in WorkspaceIds |-> IF f = "f1" THEN w[2] ELSE NoDocument]
    /\ activeFileIdRef = "f1"
    /\ storedWorkspace = [files |-> filesRef, activeFileId |-> activeFileIdRef]
    /\ remoteCatalogFile \in RemoteIndexes
    /\ refreshCall = IdleRefresh
    /\ deleteCall = IdleDelete
    /\ selectTargets = <<>>
    /\ workspaceNow = 2
    /\ workspaceOps = [actions |-> 0, refreshes |-> 0, ids |-> 0]
    /\ InitSync
    /\ MergeIdle
    /\ OnlineIdle
    /\ HunksIdle
    /\ CatalogIdle
    /\ TokenIdle
    /\ AuthIdle

NextWorkspace ==
    \/ \E name \in {"a", " b"} : createFile(name)
    \/ \E name \in {"a", " b"} : renameActiveFile(name)
    \/ \E canDeleteInDropbox \in BOOLEAN : deleteActiveFile(canDeleteInDropbox)
    \/ DeleteInDropboxDone
    \/ DeleteInDropboxFailed
    \/ DeleteStored
    \/ \E fileId \in WorkspaceIds : selectFileStarts(fileId)
    \/ \E i \in 1..MaxUserActions, downloaded \in BOOLEAN : SelectFileLands(i, downloaded)
    \/ refreshCatalog
    \/ RefreshDownloaded
    \/ \E hydrated \in BOOLEAN : RefreshInstalled(hydrated)
    \/ RefreshFailed

SpecWorkspace == InitWorkspace /\ [][NextWorkspace]_vars

(***************************************************************************)
(* Properties of the merge (checked under SpecMerge)                       *)
(***************************************************************************)
LocalChanges == changesFromDiff(diffTokens(splitLines(baseText), splitLines(localText)))

RemoteChanges == changesFromDiff(diffTokens(splitLines(baseText), splitLines(remoteText)))

Range(seq) == { seq[i] : i \in 1..Len(seq) }

\* Two base line ranges [start, end) overlap; an insertion point counts as
\* overlapping a range it lies strictly inside.
RangesOverlap(a, b) == a.start < b.end /\ b.start < a.end

DisjointEdits ==
    \A lc \in Range(LocalChanges), rc \in Range(RemoteChanges) :
        lc.start # rc.start /\ ~RangesOverlap(lc, rc)

\* The base with a set of changes spliced in, last change first so that the
\* earlier ranges keep their positions.
Later(c, d) == c.start > d.start \/ (c.start = d.start /\ c.end >= d.end)

RECURSIVE Spliced(_, _)
Spliced(lines, changes) ==
    IF changes = {} THEN lines
    ELSE LET c == CHOOSE x \in changes : \A y \in changes : Later(x, y)
         IN Spliced(SubSeq(lines, 1, c.start) \o c.insert \o SubSeq(lines, c.end + 1, Len(lines)),
                    changes \ {c})

BothApplied ==
    LET lines == Spliced(splitLines(baseText), Range(LocalChanges) \cup Range(RemoteChanges))
    IN IF lines = <<>> THEN EmptyText ELSE lines

Merged == mergePc # "input"

\* C1 as stated: disjoint edits merge cleanly and merged is exactly the base
\* with both sides' replacements applied.
C1_DisjointMergeExact ==
    (Merged /\ DisjointEdits) =>
        (mergeResult.status = "clean" /\ mergeResult.merged = BothApplied)

\* C1 amended: disjoint edits merge cleanly; merged is the base with both
\* sides' replacements applied, with trailing whitespace trimmed when both
\* sides changed the base (and exactly that text when only one side did).
C1_DisjointMergeTrimmed ==
    (Merged /\ DisjointEdits) =>
        /\ mergeResult.status = "clean"
        /\ mergeResult.merged =
              IF baseText = localText \/ baseText = remoteText \/ localText = remoteText
              THEN BothApplied ELSE TrimEnd(BothApplied)

C1_Witness ==
    /\ Merged /\ DisjointEdits
    /\ LocalChanges # <<>> /\ RemoteChanges # <<>>
    /\ mergeResult.status = "clean"
    /\ mergeResult.merged \notin {baseText, localText, remoteText}

SameRangePair ==
    \E lc \in Range(LocalChanges), rc \in Range(RemoteChanges) :
        /\ lc.start = rc.start /\ lc.end = rc.end
        /\ lc.end > lc.start
        /\ lc.insert # rc.insert

StaggeredOverlap ==
    \E lc \in Range(LocalChanges), rc \in Range(RemoteChanges) :
        lc.start # rc.start /\ RangesOverlap(lc, rc)

\* C2 as stated: when both sides replace the same base range with different
\* content the result is a conflict with reason "Changes modify the same region."
C2_SameRangeReason ==
    (Merged /\ SameRangePair) =>
        /\ mergeResult.status = "conflict"
        /\ mergeResult.reason = "Changes modify the same region."

\* C2 amended: when both sides replace the same base range with different
\* content the result is never clean: it is a conflict that returns the local
\* text, and its reason is "Changes modify the same region." unless some other
\* pair of changes overlaps at different starts ("Overlapping edits detected.").
C2_SameRangeConflict ==
    (Merged /\ SameRangePair) =>
        /\ mergeResult.status = "conflict"
        /\ mergeResult.merged = localText
        /\ mergeResult.reason \in {"Changes modify the same region.", "Overlapping edits detected."}
        /\ ~StaggeredOverlap => mergeResult.reason = "Changes modify the same region."

C2_Witness ==
    /\ Merged /\ SameRangePair
    /\ mergeResult.status = "conflict"
    /\ mergeResult.reason = "Changes modify the same region."

\* C3: merge(L, L, R) is clean with merged exactly R, and merge(R, L, R) is
\* clean with merged exactly L.
C3_OneSideUnchanged ==
    Merged =>
        /\ baseText = localText => mergeResult = Clean(remoteText)
        /\ baseText = remoteText => mergeResult = Clean(localText)

C3_Witness ==
    /\ Merged /\ baseText = localText /\ localText # remoteText
    /\ remoteText # TrimEnd(remoteText)
    /\ mergeResult.merged = remoteText

\* C4: merge(X, X, X) is clean with merged exactly X, also when X is the
\* merged output of an earlier clean merge.
C4_Idempotent ==
    /\ (Merged /\ baseText = localText /\ localText = remoteText)
          => mergeResult = Clean(baseText)
    /\ mergePc = "remerged" => remergeResult = Clean(mergeResult.merged)

C4_Witness ==
    /\ mergePc = "remerged"
    /\ mergeResult.merged \notin {baseText, localText, remoteText}
    /\ remergeResult.merged = mergeResult.merged

(***************************************************************************)
(* Properties of the orchestrator (checked under Spec)                     *)
(***************************************************************************)
\* The steps of the sync attempt in slot a, told apart by what they leave.
SyncStarts(a) == syncCalls[a].pc = "idle" /\ syncCalls'[a].pc # "idle"

SyncEndsInConflict(a) ==
    /\ syncCalls[a].pc = "download"
    /\ syncCalls'[a].pc = "idle"
    /\ syncNotice' = ConflictNotice

SyncFails(a) ==
    /\ syncCalls[a].pc \in {"token", "download", "upload"}
    /\ syncCalls'[a].pc = "idle"
    /\ syncNotice' # ConflictNotice

DownloadReturns(a) ==
    /\ syncCalls[a].pc = "download"
    /\ syncCalls'[a].pc # "download"
    /\ ~SyncFails(a)

UploadReturns(a) == syncCalls[a].pc = "upload" /\ syncCalls'[a].pc = "store"

SyncLandsClean(a) == syncCalls[a].pc = "store" /\ syncCalls'[a].pc = "idle"

Meaningful(text) == hasMeaningfulBlocksContent(parseMarkdownToBlocks(text))

\* C5: a sync of a file with no prior base (never synced, no rev, blank base)
\* whose download returns an existing file, with meaningful and different text
\* on both sides, ends in a conflict holding base "", the local text and the
\* remote text, raised by the first-sync rule and not by the merge.
C5_FirstSyncProtection ==
    [][\A a \in SyncSlots :
        (/\ DownloadReturns(a)
         /\ syncCalls[a].lastSyncedAt = Null
         /\ syncCalls[a].remoteRev = Null
         /\ Trim(syncCalls[a].baseMarkdown) = EmptyText
         /\ remoteDocs[syncCalls[a].fileId].exists
         /\ hasMeaningfulBlocksContent(syncCalls[a].blocks)
         /\ Meaningful(remoteDocs[syncCalls[a].fileId].content)
         /\ serializeBlocksToMarkdown(syncCalls[a].blocks) # remoteDocs[syncCalls[a].fileId].content)
        => /\ SyncEndsInConflict(a)
           /\ conflict' = [open |-> TRUE,
                           fileId |-> syncCalls[a].fileId,
                           base |-> EmptyText,
                           local |-> serializeBlocksToMarkdown(syncCalls[a].blocks),
                           remote |-> remoteDocs[syncCalls[a].fileId].content,
                           resolved |-> serializeBlocksToMarkdown(syncCalls[a].blocks),
                           reason |-> FirstSyncReason]
           /\ UNCHANGED <<remoteDocs, storedDocs, docState>>]_vars

C5_Witness ==
    /\ conflict.open
    /\ conflict.reason = FirstSyncReason
    /\ conflict.base = EmptyText
    /\ Meaningful(conflict.local)
    /\ Meaningful(conflict.remote)
    /\ conflict.local # conflict.remote

\* C6: a sync attempt that ends in a conflict has uploaded nothing, and none of
\* its steps (the call, the token refresh, the step that raises the conflict)
\* writes the remote store, the persisted records, the cache or the in-memory
\* text, base, rev and sync time; the conflict step changes only the conflict,
\* the notice and the in-flight flag.
C6_NoMutationOnConflict ==
    [][\A a \in SyncSlots :
        /\ (SyncStarts(a) \/ (syncCalls[a].pc = "token" /\ syncCalls'[a].pc = "download"))
           => UNCHANGED <<remoteDocs, storedDocs, documentCache, docState>>
        /\ SyncEndsInConflict(a)
           => /\ syncCalls[a].uploads = 0
              /\ conflict'.open
              /\ UNCHANGED <<remoteDocs, storedDocs, documentCache, docState, activeFileId,
                             dropboxToken, storedToken, clock>>]_vars

C6_Witness ==
    /\ conflict.open
    /\ conflict.reason \in {"Changes modify the same region.", "Overlapping edits detected."}
    /\ syncNotice = ConflictNotice
    /\ ~isSyncing

\* C7: when a remote call of a sync attempt fails with a message that matches
\* an auth pattern, the token is cleared in memory and in the store and the
\* notice is the reconnect message (so the notice never shows a matching
\* message); any other failure shows its message and keeps the token; and a
\* failed attempt leaves the text, base, rev and sync time untouched.
C7_AuthFailure ==
    [][\A a \in SyncSlots :
        SyncFails(a)
        => /\ \/ /\ syncNotice' = ReconnectNotice
                 /\ dropboxToken' = NoToken
                 /\ storedToken' = NoToken
              \/ /\ syncNotice' \notin AuthDetails \cup {ReconnectNotice}
                 /\ UNCHANGED <<dropboxToken, storedToken>>
           /\ UNCHANGED <<docState, storedDocs, documentCache, remoteDocs>>]_vars

C7_Witness ==
    /\ syncNotice = ReconnectNotice
    /\ dropboxToken = NoToken
    /\ storedToken = NoToken
    /\ lastReturn = "started"
    /\ callCount = 1
    /\ SyncsInFlight = {}
    /\ hasMeaningfulBlocksContent(blocks)

\* C8: at most one sync attempt is in flight; an attempt starts only when no
\* sync and no pull is in flight; and a call that is rejected changes nothing
\* (it queues nothing and reaches no remote call).
C8_SingleInFlight ==
    /\ [](Cardinality(SyncsInFlight) <= 1)
    /\ [][/\ \A a \in SyncSlots :
               SyncStarts(a) => (SyncsInFlight = {} /\ pullCall.pc = "idle")
          /\ lastReturn' = "rejected" /\ lastReturn # "rejected"
               => /\ SyncsInFlight # {} \/ pullCall.pc # "idle" \/ resolveCall.pc # "idle"
                  /\ UNCHANGED <<envVars, storedDocs, storedToken, activeFileId, docState,
                                 documentCache, dropboxToken, syncNotice, flagVars, conflict,
                                 autosavePending, callVars>>]_vars

C8_Witness ==
    /\ lastReturn = "rejected"
    /\ Cardinality(SyncsInFlight) = 1

\* C9: the baseMarkdown of a document (in memory while it is the active one,
\* and in its persisted record) changes only in the step in which a clean sync
\* or a conflict resolution of that same document lands, and then becomes the
\* text that attempt merged or uploaded.
BaseChanges(fileId) ==
    \/ /\ activeFileId = fileId
       /\ activeFileId' = fileId
       /\ baseMarkdown' # baseMarkdown
    \/ /\ storedDocs[fileId].exists
       /\ storedDocs'[fileId].baseMarkdown # storedDocs[fileId].baseMarkdown

NewBase(fileId) ==
    IF activeFileId' = fileId /\ activeFileId = fileId /\ baseMarkdown' # baseMarkdown
    THEN baseMarkdown' ELSE storedDocs'[fileId].baseMarkdown

C9_BaseDiscipline ==
    [][\A fileId \in FileIds :
        BaseChanges(fileId)
        => \/ \E a \in SyncSlots :
                /\ SyncLandsClean(a)
                /\ syncCalls[a].fileId = fileId
                /\ NewBase(fileId) = syncCalls[a].merged
           \/ /\ resolveCall.pc = "store"
              /\ resolveCall'.pc = "idle"
              /\ resolveCall.conflict.fileId = fileId
              /\ NewBase(fileId) = resolveCall.conflict.resolved]_vars

\* C10 as stated: a clean sync makes no upload and stores the downloaded rev
\* when the merged text equals the downloaded remote text, and makes exactly
\* one upload of the merged text and stores that upload's rev when it differs.
DownloadedText(call) == IF call.remoteFile.exists THEN call.remoteFile.content ELSE EmptyText

UploadStoresMerged ==
    \A a \in SyncSlots :
        UploadReturns(a)
        => /\ remoteDocs'[syncCalls[a].fileId] = DropboxFile(syncCalls[a].merged, syncCalls'[a].latestRev)
           /\ syncCalls'[a].uploads = syncCalls[a].uploads + 1
           /\ syncCalls'[a].latestRev # syncCalls[a].remoteFile.rev

RemoteTextUsed(call) ==
    IF call.remoteFile.exists /\ Meaningful(call.remoteFile.content)
    THEN call.remoteFile.content ELSE EmptyText

ResolveUploads == resolveCall.pc = "upload" /\ resolveCall'.pc = "store"

ResolveLands == resolveCall.pc = "store" /\ resolveCall'.pc = "idle"

ResolveFails == resolveCall.pc \in {"token", "upload"} /\ resolveCall'.pc = "idle"

\* C11: a resolution uploads the resolved text of the conflict it was called
\* with to that file's remote path, whatever the remote holds; it then writes a
\* record for conflict.fileId whose baseMarkdown is the resolved text and whose
\* remoteRev is the rev the upload returned, and clears the conflict; a
\* resolution that fails leaves the conflict, the records and the remote store
\* as they were.
C11_ResolutionPath ==
    [][/\ ResolveUploads
          => /\ remoteDocs'[resolveCall.conflict.fileId] =
                    DropboxFile(resolveCall.conflict.resolved, resolveCall'.rev)
             /\ resolveCall'.rev \notin {Null, remoteDocs[resolveCall.conflict.fileId].rev}
             /\ UNCHANGED <<storedDocs, conflict>>
       /\ ResolveLands
          => /\ storedDocs'[resolveCall.conflict.fileId].exists
             /\ storedDocs'[resolveCall.conflict.fileId].baseMarkdown = resolveCall.conflict.resolved
             /\ storedDocs'[resolveCall.conflict.fileId].remoteRev = resolveCall.rev
             /\ conflict' = NoConflict
             /\ UNCHANGED remoteDocs
       /\ ResolveFails
          => UNCHANGED <<conflict, storedDocs, documentCache, remoteDocs, docState>>]_vars

C11_Witness ==
    /\ syncNotice = ResolvedNotice
    /\ ~conflict.open
    /\ storedDocs[activeFileId].baseMarkdown = remoteDocs[activeFileId].content
    /\ storedDocs[activeFileId].remoteRev = remoteDocs[activeFileId].rev
    /\ storedDocs[activeFileId].baseMarkdown # EmptyText

(***************************************************************************)
(* Properties of the auto-trigger (checked under SpecOnline)               *)
(***************************************************************************)
\* The effects run after a render that followed a change from offline to
\* online with a token present.
EffectsRunAfterReconnect ==
    /\ effectDeps' # effectDeps
    /\ ~effectDeps.isOnline
    /\ navigatorOnLine
    /\ dropboxToken # NoToken

\* C12: the effects that run after connectivity went from offline to online
\* with a token present start exactly one sync attempt, and the effects that
\* run after any other change (re-renders while online, a change without a
\* token, going offline) start none.
C12_EdgeTriggered ==
    [][effectDeps' # effectDeps
       => IF EffectsRunAfterReconnect
          THEN Cardinality({a \in SyncSlots : SyncStarts(a)}) = 1
          ELSE \A a \in SyncSlots : ~SyncStarts(a)]_vars

(***************************************************************************)
(* Properties of a file switch during an operation (checked under Spec)    *)
(***************************************************************************)
\* C13: selectFile first persists a snapshot of the outgoing document; and a
\* sync or a resolution of file F that lands while another file G is active
\* writes F's record only: the editor text, baseMarkdown, remoteRev and
\* lastSyncedAt, and G's cached and persisted documents, stay as they were.
KeepsActiveDocument ==
    /\ UNCHANGED <<blocks, baseMarkdown, remoteRev, lastSyncedAt>>
    /\ documentCache'[activeFileId] = documentCache[activeFileId]
    /\ storedDocs'[activeFileId] = storedDocs[activeFileId]

C13_SwitchKeepsNewDocument ==
    [][/\ selectCall.pc = "idle" /\ selectCall'.pc = "load"
          => /\ storedDocs'[activeFileId] = Payload
             /\ documentCache'[activeFileId] = Payload
       /\ \A a \in SyncSlots :
            SyncLandsClean(a) /\ syncCalls[a].fileId # activeFileId
            => /\ KeepsActiveDocument
               /\ storedDocs'[syncCalls[a].fileId] = mergedDocument(syncCalls[a])
       /\ ResolveLands /\ resolveCall.conflict.fileId # activeFileId
          => /\ KeepsActiveDocument
             /\ storedDocs'[resolveCall.conflict.fileId] = resolvedDocument(resolveCall)]_vars

(***************************************************************************)
(* Properties of the conflict modal (checked under SpecHunks)              *)
(***************************************************************************)
ChangeHunkIds == { i \in 1..Len(hunks) : hunks[i].type = "change" }

ChoiceOf(id) == IF id <= Len(hunkChoices) /\ hunkChoices[id] # Unset THEN hunkChoices[id] ELSE "local"

\* C14: the text composed from the hunks of (remote, local) is the local text
\* when every change hunk is resolved as local, by choice or by default, and
\* is the remote text when every change hunk is resolved as incoming.
C14_HunkRoundTrip ==
    /\ (\A id \in ChangeHunkIds : ChoiceOf(id) = "local") => resolvedMarkdown = conflictLocal
    /\ (\A id \in ChangeHunkIds : ChoiceOf(id) = "incoming") => resolvedMarkdown = conflictRemote

C14_Witness ==
    /\ Cardinality(ChangeHunkIds) = 2
    /\ Len(hunkChoices) = Len(hunks)
    /\ \A id \in ChangeHunkIds : hunkChoices[id] = "incoming"
    /\ resolvedMarkdown = conflictRemote
    /\ conflictRemote # conflictLocal

(***************************************************************************)
(* Properties of the catalog merge (checked under SpecCatalog)             *)
(***************************************************************************)
IdsOf(files) == { files[i].id : i \in 1..Len(files) }

EntriesOf(files, id) == { i \in 1..Len(files) : files[i].id = id }

\* C15: when the local and the remote list share no id, the merged list has
\* exactly |local| + |remote| entries and holds every id of either list
\* exactly once.
C15_CatalogUnion ==
    (catalogPc = "merged" /\ IdsOf(localFiles) \cap IdsOf(remoteFiles) = {})
    => /\ Len(mergedFiles) = Len(localFiles) + Len(remoteFiles)
       /\ \A id \in IdsOf(localFiles) \cup IdsOf(remoteFiles) :
            Cardinality(EntriesOf(mergedFiles, id)) = 1

C15_Witness ==
    /\ catalogPc = "merged"
    /\ IdsOf(localFiles) \cap IdsOf(remoteFiles) = {}
    /\ Len(localFiles) = 2
    /\ Len(remoteFiles) = 1
    /\ Len(mergedFiles) = 3

ReturnedIffFresh ==
    /\ tokenPc = "input" => tokenRequests = 0
    /\ tokenPc = "returned"
       => /\ tokenResult = tokenArg
          /\ tokenRequests = 0
          /\ dateNow < tokenArg[1].expiresAt - oneMinute
    /\ tokenPc \in {"refreshing", "refreshed", "threw"}
       => tokenRequests = 1 /\ tokenArg[1].expiresAt - oneMinute <= dateNow

\* C17 as stated: the given token is returned unchanged without a request
\* when more than a minute is left; otherwise the access token and expiry
\* come from the server, and the refresh token and the account id are the
\* given ones unless the server returned new ones.
C17_TokenRefresh ==
    /\ ReturnedIffFresh
    /\ tokenPc = "refreshed"
       => /\ tokenResult[1].accessToken = tokenPayload[1].access_token
          /\ tokenResult[1].expiresAt = dateNow + tokenPayload[1].expires_in
          /\ tokenResult[1].accountId = IF tokenPayload[1].account_id # Undefined
                                        THEN tokenPayload[1].account_id
                                        ELSE tokenArg[1].accountId
          /\ tokenResult[1].refreshToken = IF tokenPayload[1].refresh_token # Undefined
                                           THEN tokenPayload[1].refresh_token
                                           ELSE tokenArg[1].refreshToken

\* C17 amended: as above, but the refresh token of the result is always the
\* given one, whatever the server returned.
C17_TokenRefreshKeepsRefreshToken ==
    /\ ReturnedIffFresh
    /\ tokenPc = "refreshed"
       => /\ tokenResult[1].accessToken = tokenPayload[1].access_token
          /\ tokenResult[1].expiresAt = dateNow + tokenPayload[1].expires_in
          /\ tokenResult[1].accountId = IF tokenPayload[1].account_id # Undefined
                                        THEN tokenPayload[1].account_id
                                        ELSE tokenArg[1].accountId
          /\ tokenResult[1].refreshToken = tokenArg[1].refreshToken

C17_Witness ==
    /\ tokenPc = "refreshed"
    /\ tokenArg[1].expiresAt - oneMinute = dateNow
    /\ tokenPayload[1].refresh_token # Undefined
    /\ tokenPayload[1].account_id # Undefined
    /\ tokenArg[1].accountId # Undefined
    /\ tokenResult[1].accountId = tokenPayload[1].account_id
    /\ tokenResult[1].refreshToken = tokenArg[1].refreshToken

(***************************************************************************)
(* Properties of the OAuth callback (checked under SpecAuth)               *)
(***************************************************************************)
CallbackRejected ==
    /\ authPc = "bootstrap"
    /\ locationCode # ""
    /\ \/ locationState = ""
       \/ locationState # sessionState
       \/ sessionState = ""
       \/ sessionVerifier = ""

ExchangeLacksRefreshToken ==
    /\ authPc = "exchanging"
    /\ exchangePayload' # <<>>
    /\ exchangePayload'[1].refresh_token \in {Undefined, ""}

\* C18: a callback with a code whose state is absent or differs from the
\* stored one, or with no stored state or verifier, fails without a code
\* exchange, and no token is produced or stored; an exchange that succeeds
\* without a refresh token fails too and yields no token.
C18_CallbackValidation ==
    [][/\ (CallbackRejected /\ authPc' # authPc)
          => /\ authPc' = "threw"
             /\ oauthToken' = <<>>
             /\ UNCHANGED <<exchangeRequests, hookToken, sessionState, sessionVerifier>>
       /\ (ExchangeLacksRefreshToken /\ authPc' # authPc)
          => /\ authPc' = "threw"
             /\ oauthToken' = <<>>
             /\ UNCHANGED hookToken]_vars

C18_Witness ==
    /\ authPc = "threw"
    /\ locationCode # ""
    /\ sessionState # ""
    /\ sessionVerifier # ""
    /\ locationState \notin {"", sessionState}
    /\ exchangeRequests = 0
    /\ hookToken # <<>>
    /\ oauthToken = <<>>
    /\ authNotice = StateMismatchNotice

(***************************************************************************)
(* Re-invocation of the sync (checked under Spec)                          *)
(***************************************************************************)
\* The attempt in slot a has downloaded, and nothing changed since a clean
\* sync of the active file landed: the last notice is that sync's, the
\* document is the one it wrote (the blocks parsed from the base, the
\* revision of the file in Dropbox), and the attempt closed over it.
ResyncUnchanged(a) ==
    /\ syncCalls[a].pc = "download"
    /\ syncNotice = SyncCompleteNotice
    /\ syncCalls[a].fileId = activeFileId
    /\ lastSyncedAt # Null
    /\ blocks = normalizeBlocksForEditor(parseMarkdownToBlocks(baseMarkdown))
    /\ remoteDocs[activeFileId].exists
    /\ remoteDocs[activeFileId].rev = remoteRev
    /\ syncCalls[a].blocks = blocks
    /\ syncCalls[a].baseMarkdown = baseMarkdown
    /\ syncCalls[a].remoteRev = remoteRev
    /\ syncCalls[a].lastSyncedAt = lastSyncedAt

\* C19: a sync invoked again after a clean sync, with no local or remote
\* change in between, ends clean without an upload and leaves the blocks, the
\* base and the revision as the first one left them; and a failed attempt
\* leaves the stored documents as they were.
C19_SafeToReinvoke ==
    [][\A a \in SyncSlots :
        /\ (ResyncUnchanged(a) /\ DownloadReturns(a))
           => /\ syncCalls'[a].pc = "store"
              /\ UNCHANGED <<conflict, remoteDocs>>
              /\ mergedDocument(syncCalls'[a]).blocks = blocks
              /\ mergedDocument(syncCalls'[a]).baseMarkdown = baseMarkdown
              /\ mergedDocument(syncCalls'[a]).remoteRev = remoteRev
        /\ SyncFails(a) => UNCHANGED <<storedDocs, docState, remoteDocs>>]_vars

(***************************************************************************)
(* Properties of the guards of syncWithDropbox (checked under SpecGuards)  *)
(***************************************************************************)
SyncPreconditionFails ==
    \/ dropboxToken = NoToken
    \/ ~navigatorOnLine
    \/ activeFileId = NoActiveFile
    \/ activeFileId \notin IdsOf(localFiles)

\* C20: a call with no token, or offline, or with no active file id, or with
\* an active id that is not in the catalog, returns false with a notice that
\* says why, starts no attempt (so reaches no network call), and leaves the
\* token, the blocks, the base, the revision, the sync time, the conflict and
\* the in-flight flag as they were.
C20_SyncPreconditions ==
    [][(/\ lastReturn' # lastReturn
        /\ ~syncInFlightGuard
        /\ SyncPreconditionFails)
       => /\ lastReturn' = "refused"
          /\ syncNotice' \in {NoAppKeyNotice, ConnectFirstNotice, OfflineNotice,
                              NoManuscriptNotice, NotFoundNotice}
          /\ syncNotice' = ConnectFirstNotice => dropboxToken = NoToken
          /\ syncNotice' = OfflineNotice => ~navigatorOnLine
          /\ syncNotice' = NoManuscriptNotice => activeFileId = NoActiveFile
          /\ syncNotice' = NotFoundNotice => activeFileId \notin IdsOf(localFiles)
          /\ UNCHANGED <<dropboxToken, storedToken, docState, conflict, isSyncing, isPulling,
                         syncCalls, remoteDocs, storedDocs, documentCache, clock>>]_vars

C20_Witness ==
    /\ lastReturn = "refused"
    /\ syncNotice = NotFoundNotice
    /\ dropboxToken # NoToken
    /\ navigatorOnLine
    /\ activeFileId = "f2"
    /\ Len(localFiles) = 1
    /\ ~isSyncing
    /\ \A a \in SyncSlots : syncCalls[a].pc = "idle"

(***************************************************************************)
(* A missing remote file (checked under Spec)                              *)
(***************************************************************************)
DownloadFindsNoFile(a) ==
    /\ DownloadReturns(a)
    /\ ~remoteDocs[syncCalls[a].fileId].exists

\* C21: when the download finds no file, the sync goes on with remote text
\* "": no first-sync conflict is raised, and unless the merge conflicts the
\* merged text, which is the local text, is uploaded, which creates the
\* file, and the revision the upload returns is the one recorded.
C21_MissingRemoteFile ==
    [][\A a \in SyncSlots :
        /\ DownloadFindsNoFile(a)
           => /\ conflict'.open /\ conflict' # conflict => conflict'.reason # FirstSyncReason
              /\ ~SyncEndsInConflict(a)
                 => /\ syncCalls'[a].pc = "upload"
                    /\ syncCalls'[a].merged = mergeLocalMarkdown(syncCalls[a])
                    /\ UNCHANGED remoteDocs
        /\ (UploadReturns(a) /\ ~syncCalls[a].remoteFile.exists)
           => /\ remoteDocs'[syncCalls[a].fileId].exists
              /\ remoteDocs'[syncCalls[a].fileId].content = syncCalls[a].merged
              /\ syncCalls'[a].latestRev = remoteDocs'[syncCalls[a].fileId].rev
              /\ mergedDocument(syncCalls'[a]).remoteRev = remoteDocs'[syncCalls[a].fileId].rev]_vars

\* The refresh leaves its download await with a merged catalog.
RefreshMerges == refreshCall.pc = "download" /\ refreshCall'.pc = "network"

\* What Dropbox's index file lists.
RemoteEntries ==
    IF remoteCatalogFile.exists THEN normalizeFiles(remoteCatalogFile.files, workspaceNow) ELSE <<>>

\* The file is named as the first file is, holds nothing and was never synced.
IsBootstrapPlaceholder(file) ==
    /\ file.name = "Manuscript"
    /\ ~hasMeaningfulBlocksContent(workspaceDocs[file.id].blocks)
    /\ workspaceDocs[file.id].lastSyncedAt = Null
    /\ workspaceDocs[file.id].remoteRev = Null
    /\ Trim(workspaceDocs[file.id].baseMarkdown) = EmptyText

\* C22: when a catalog refresh merges, a sole local file that Dropbox's
\* non-empty index does not list and that is the default-named, empty,
\* never-synced placeholder is dropped, so that the merged catalog is the
\* remote entries; a sole local file with meaningful content, another name
\* or earlier sync state is in the merged catalog.
C22_BootstrapPlaceholder ==
    [][RefreshMerges /\ Len(filesRef) = 1 =>
          /\ (/\ RemoteEntries # <<>>
              /\ filesRef[1].id \notin IdsOf(RemoteEntries)
              /\ IsBootstrapPlaceholder(filesRef[1]))
                => refreshCall'.mergedFiles = RemoteEntries
          /\ ~IsBootstrapPlaceholder(filesRef[1])
                => filesRef[1].id \in IdsOf(refreshCall'.mergedFiles)]_vars

C22_Witness ==
    /\ refreshCall.pc = "network"
    /\ Len(filesRef) = 1
    /\ IsBootstrapPlaceholder(filesRef[1])
    /\ refreshCall.localFilesForMerge = <<>>
    /\ refreshCall.mergedFiles = RemoteEntries
    /\ RemoteEntries # <<>>

\* The refresh returns from syncFileCatalogWithDropbox (not by a throw).
RefreshCompletes ==
    /\ refreshCall.pc # "idle"
    /\ refreshCall'.pc = "idle"
    /\ ~(UNCHANGED <<filesRef, storedWorkspace, workspaceDocs, remoteCatalogFile>>)
       \/ areFileListsEqual(refreshCall.mergedFiles, filesRef)

NameIn(files, id) == files[IndexOfId(files, id)].name

\* C24: when a catalog refresh completes, the catalog it leaves installed
\* and persisted holds every file that was created while it awaited the
\* network and the name of every file that was renamed meanwhile.
C24_RefreshKeepsUserActions ==
    [][RefreshCompletes =>
          \A id \in IdsOf(filesRef) :
              /\ (id \notin IdsOf(refreshCall.localFilesSnapshot)
                    /\ ~IsBootstrapPlaceholder(filesRef[IndexOfId(filesRef, id)]))
                    => /\ id \in IdsOf(filesRef')
                       /\ id \in IdsOf(storedWorkspace'.files)
              /\ (/\ id \in IdsOf(refreshCall.localFilesSnapshot)
                  /\ NameIn(filesRef, id) # NameIn(refreshCall.localFilesSnapshot, id)
                  /\ id \in IdsOf(filesRef'))
                    => NameIn(filesRef', id) = NameIn(filesRef, id)]_vars

\* C30: after bootstrap the catalog is never empty, its ids are non-empty
\* and pairwise distinct, and the active file is an entry of the catalog.
C30_WorkspaceInvariant ==
    /\ filesRef # <<>>
    /\ \A i \in 1..Len(filesRef) : filesRef[i].id # ""
    /\ \A i, j \in 1..Len(filesRef) : filesRef[i].id = filesRef[j].id => i = j
    /\ activeFileIdRef \in IdsOf(filesRef)

\* C23: provided every await completes, an in-flight flag that is set is
\* eventually cleared, and it is never set while no call that raised it is
\* still running.
C23_ReturnsToIdle ==
    /\ isSyncing ~> ~isSyncing
    /\ isPulling ~> ~isPulling
    /\ [](isSyncing => SyncsInFlight # {} \/ resolveCall.pc # "idle")
    /\ [](isPulling => pullCall.pc # "idle")

C23_Witness ==
    /\ ~isSyncing
    /\ ~isPulling
    /\ SyncsInFlight = {}
    /\ resolveCall.pc = "idle"
    /\ pullCall.pc = "idle"
    /\ callCount = MaxCalls
    /\ conflict.open

\* The items of the ops of the given types, concatenated in order.
RECURSIVE ItemsOf(_, _)
ItemsOf(ops, types) ==
    IF ops = <<>> THEN <<>>
    ELSE (IF Head(ops).type \in types THEN Head(ops).items ELSE <<>>) \o ItemsOf(Tail(ops), types)

\* The elements of seq at the indices in picked, in order.
Picked(seq, picked) ==
    LET kept == SelectSeq([i \in 1..Len(seq) |-> i], LAMBDA i : i \in picked)
    IN [k \in 1..Len(kept) |-> seq[kept[k]]]

RECURSIVE IsSubsequence(_, _)
IsSubsequence(sub, seq) ==
    IF sub = <<>> THEN TRUE
    ELSE IF seq = <<>> THEN FALSE
    ELSE IF Head(sub) = Head(seq) THEN IsSubsequence(Tail(sub), Tail(seq))
    ELSE IsSubsequence(sub, Tail(seq))

\* The length of a longest common subsequence, by its definition.
LongestCommonLength(old, new) ==
    LET common == { picked \in SUBSET (1..Len(old)) : IsSubsequence(Picked(old, picked), new) }
    IN CHOOSE n \in 0..Len(old) :
          /\ \E picked \in common : Cardinality(picked) = n
          /\ \A picked \in common : Cardinality(picked) <= n

DiffCovers(old, new) ==
    LET ops == diffTokens(old, new)
    IN /\ ItemsOf(ops, {"equal", "delete"}) = old
       /\ ItemsOf(ops, {"equal", "insert"}) = new
       /\ \A k \in 1..(Len(ops) - 1) : ops[k].type # ops[k + 1].type
       /\ \A k \in 1..Len(ops) : ops[k].type \in {"equal", "delete", "insert"}
       /\ Len(ItemsOf(ops, {"equal"})) = LongestCommonLength(old, new)

\* C25: the ops of diffTokens(old, new) cover the transform: the equal and
\* delete items are old, the equal and insert items are new, neighbouring
\* ops differ in type, and the equal items are as many as a longest common
\* subsequence of old and new has.  Here for the two diffs of a merge.
C25_DiffCoversTransform ==
    /\ DiffCovers(splitLines(baseText), splitLines(localText))
    /\ DiffCovers(splitLines(baseText), splitLines(remoteText))
    /\ DiffCovers(splitLines(localText), splitLines(remoteText))

C25_Witness ==
    /\ mergePc = "merged"
    /\ LET ops == diffTokens(splitLines(baseText), splitLines(localText))
       IN /\ Len(ops) >= 5
          /\ \E k \in 1..Len(ops) : ops[k].type = "equal" /\ Len(ops[k].items) = 1
          /\ \E k \in 1..Len(ops) : ops[k].type = "delete" /\ Len(ops[k].items) = 2
          /\ \E k \in 1..Len(ops) : ops[k].type = "insert" /\ Len(ops[k].items) = 2

\* ins inserts (changes no base line) strictly inside the lines edit changes.
InsertsStrictlyInside(ins, edit) ==
    /\ ins.start = ins.end
    /\ edit.start < edit.end
    /\ edit.start < ins.start
    /\ ins.start < edit.end

Clash(a, b) == RangesOverlap(a, b) \/ InsertsStrictlyInside(a, b) \/ InsertsStrictlyInside(b, a)

\* The pairs (local change, remote change) the merge loop has in hand, one
\* after the other, until a side runs out or the loop returns a conflict.
RECURSIVE WalkPairs(_, _, _, _)
WalkPairs(localChanges, remoteChanges, localIndex, remoteIndex) ==
    IF localIndex > Len(localChanges) \/ remoteIndex > Len(remoteChanges) THEN {}
    ELSE LET l == localChanges[localIndex]
             r == remoteChanges[remoteIndex]
             here == {<<localIndex, remoteIndex>>}
         IN IF l.start < r.start
            THEN here \cup (IF Clash(l, r) THEN {}
                            ELSE WalkPairs(localChanges, remoteChanges, localIndex + 1, remoteIndex))
            ELSE IF r.start < l.start
            THEN here \cup (IF Clash(l, r) THEN {}
                            ELSE WalkPairs(localChanges, remoteChanges, localIndex, remoteIndex + 1))
            ELSE here \cup (IF l.end = r.end /\ (l.insert = r.insert \/ l.start = l.end)
                            THEN WalkPairs(localChanges, remoteChanges, localIndex + 1, remoteIndex + 1)
                            ELSE {})

GeneralPath == localText # remoteText /\ baseText # localText /\ baseText # remoteText

\* A pair in hand whose earlier-starting change clashes with the other.
ClashingPair ==
    \E pair \in WalkPairs(LocalChanges, RemoteChanges, 1, 1) :
        LET l == LocalChanges[pair[1]]
            r == RemoteChanges[pair[2]]
        IN l.start # r.start /\ Clash(l, r)

\* C26: on the general path, when the earlier-starting of the two changes in
\* hand overlaps the other, or one is an insert strictly inside the lines
\* the other changes, the merge is a conflict with reason "Overlapping edits
\* detected." and the local text; and every conflict carries the local text.
C26_OverlapConflict ==
    mergePc # "input" =>
        /\ (GeneralPath /\ ClashingPair)
              => mergeResult = [status |-> "conflict", merged |-> localText,
                                reason |-> "Overlapping edits detected."]
        /\ mergeResult.status = "conflict" => mergeResult.merged = localText

C26_Witness ==
    /\ mergePc = "merged"
    /\ GeneralPath
    /\ mergeResult.status = "conflict"
    /\ mergeResult.reason = "Overlapping edits detected."
    /\ mergeResult.merged = localText
    /\ \E pair \in WalkPairs(LocalChanges, RemoteChanges, 1, 1) :
          /\ pair[1] + pair[2] > 2
          /\ InsertsStrictlyInside(LocalChanges[pair[1]], RemoteChanges[pair[2]])


(***************************************************************************)
(* Edits made while a sync is in flight                                    *)
(***************************************************************************)
\* The editor stays editable while isSyncing (handleEditorBlocksChange,
\* useManuscriptEditor.ts:83-96, has no guard), so blocks may differ from the
\* blocks the call closed over when the call lands.
EditedInFlight(a) ==
    /\ syncCalls[a].fileId = activeFileId
    /\ editCount > syncCalls[a].edits
    /\ blocks # syncCalls[a].blocks

TextItems(blockList) ==
    LET text == serializeBlocksToMarkdown(blockList) IN { text[i] : i \in 1..Len(text) }

\* Every line the edit wrote that the captured text did not have.
EditedLines(a) == { line \in TextItems(blocks) : line \notin TextItems(syncCalls[a].blocks) }

\* C27: no local edit is silently lost by a clean sync: when an attempt
\* lands cleanly on the document it started from and the user has edited that
\* document since the attempt captured its text, either the in-memory blocks
\* are left as the user has them or every line the edit wrote is still in
\* them.
C27_EditSurvivesSync ==
    [][\A a \in SyncSlots :
          SyncLandsClean(a) /\ EditedInFlight(a)
          => \/ blocks' = blocks
             \/ EditedLines(a) \subseteq TextItems(blocks')]_vars


(***************************************************************************)
(* Remote writes between the download and the upload of a sync             *)
(***************************************************************************)
LinesOfText(text) == { text[i] : i \in 1..Len(text) }

\* The file in Dropbox is no longer the one the call downloaded.
RemoteChangedSinceDownload(a) ==
    /\ remoteDocs[syncCalls[a].fileId].exists
    /\ remoteDocs[syncCalls[a].fileId] # syncCalls[a].remoteFile

\* Every line of the file now in Dropbox that the downloaded file did not have.
OtherWritersLines(a) ==
    { line \in LinesOfText(remoteDocs[syncCalls[a].fileId].content) :
        line \notin LinesOfText(remoteMarkdown(syncCalls[a].remoteFile)) }

\* C28: no remote lost update in a clean sync: when the upload of an
\* attempt succeeds and another writer has changed the remote file since the
\* attempt downloaded it, the remote file after the upload still holds every
\* line the other writer wrote.
C28_UploadKeepsRemoteChange ==
    [][\A a \in SyncSlots :
          UploadReturns(a) /\ RemoteChangedSinceDownload(a)
          => OtherWritersLines(a) \subseteq
                 LinesOfText(remoteDocs'[syncCalls[a].fileId].content)]_vars


(***************************************************************************)
(* Remote operations in flight                                             *)
(***************************************************************************)
\* The orchestrator once a first sync has ended in a conflict: the user typed
\* DocA and it was saved, another device uploaded DocB, and syncWithDropbox
\* opened the conflict (part_016:1002-1017).  The budgets of calls, edits
\* and remote writes start afresh, so that two more calls fit after the one
\* that opened the conflict.
InitConflictOpen ==
    /\ clock = 1
    /\ remoteDocs = [f \in FileIds |-> IF f = "f1" THEN DropboxFile(serializeBlocksToMarkdown(DocB), 1)
                                                 ELSE NoRemoteFile]
    /\ storedDocs = [f \in FileIds |-> IF f = "f1" THEN StoredDocument(DocA, Null, EmptyText, Null)
                                                 ELSE NoDocument]
    /\ storedToken = 1
    /\ activeFileId = "f1"
    /\ blocks = DocA
    /\ baseMarkdown = EmptyText
    /\ remoteRev = Null
    /\ lastSyncedAt = Null
    /\ documentCache = [f \in FileIds |-> IF f = "f1" THEN StoredDocument(DocA, Null, EmptyText, Null)
                                                    ELSE NoDocument]
    /\ dropboxToken = 1
    /\ syncNotice = ConflictNotice
    /\ isSyncing = FALSE
    /\ isPulling = FALSE
    /\ conflict = ConflictState("f1", EmptyText, serializeBlocksToMarkdown(DocA),
                                serializeBlocksToMarkdown(DocB), FirstSyncReason)
    /\ autosavePending = FALSE
    /\ syncCalls = [a \in SyncSlots |-> IdleSync]
    /\ resolveCall = IdleResolve
    /\ selectCall = IdleSelect
    /\ pullCall = IdlePull
    /\ lastReturn = "started"
    /\ editCount = 0
    /\ callCount = 0
    /\ remoteWriteCount = 0
    /\ MergeIdle /\ OnlineIdle /\ HunksIdle /\ CatalogIdle /\ TokenIdle /\ AuthIdle
    /\ WorkspaceIdle

\* The calls of the hook and their continuations, without the steps that
\* only change the text (typing, other devices).
NextOperations ==
    \/ Autosave
    \/ disconnectDropbox
    \/ \E text \in {conflict.local, conflict.remote} : ChooseResolved(text)
    \/ CloseConflict
    \/ \E isOnline, tokenExpired \in BOOLEAN : syncWithDropbox(isOnline, tokenExpired)
    \/ \E a \in SyncSlots : SyncTokenRefreshed(a)
    \/ \E a \in SyncSlots : SyncDownloaded(a)
    \/ \E a \in SyncSlots : SyncUploaded(a)
    \/ \E a \in SyncSlots : SyncStored(a)
    \/ \E tokenExpired \in BOOLEAN : resolveConflict(tokenExpired)
    \/ ResolveTokenRefreshed
    \/ ResolveUploaded
    \/ ResolveStored
    \/ \E fileId \in FileIds, isOnline \in BOOLEAN : selectFile(fileId, isOnline)
    \/ \E tokenExpired \in BOOLEAN : SelectLoaded(tokenExpired)
    \/ \E tokenExpired \in BOOLEAN : pullFileCatalog(tokenExpired)
    \/ PullTokenRefreshed
    \/ PullCatalogSynced

SpecConflictOpen == InitConflictOpen /\ [][NextOperations]_vars

ResolveInFlight == resolveCall.pc # "idle"

PullInFlight == pullCall.pc # "idle"

OperationsInFlight ==
    Cardinality(SyncsInFlight) + (IF ResolveInFlight THEN 1 ELSE 0)
                               + (IF PullInFlight THEN 1 ELSE 0)

\* C29: conflict resolution never overlaps another remote operation: in
\* every reachable state at most one of a sync, a pull and a resolveConflict
\* is between its start and its completion.
C29_OneOperationInFlight == OperationsInFlight <= 1

\* A resolveConflict is in flight, alone, and a sync asked for meanwhile was
\* turned away by the guard.
C29_Witness ==
    /\ ResolveInFlight
    /\ OperationsInFlight = 1
    /\ lastReturn = "rejected"

====
